---- MODULE Spec2Model ----
(***************************************************************************)
(* uf-ulog: producers enqueue bounded Records into one bounded queue, a    *)
(* single exporter drains the queue and serialises each record into ULog   *)
(* frames on a byte sink.                                                  *)
(*                                                                         *)
(* Bytes are naturals 0..255, strings and buffers are sequences of bytes.  *)
(* The generic parameters RECORD_CAP, MAX_MULTI_IDS and MAX_STREAMS are    *)
(* instantiated small; the code is generic in them.                        *)
(***************************************************************************)
EXTENDS Integers, Sequences, FiniteSets, TLC

(* ---------------- instantiation of the generic parameters ------------- *)
RECORD_CAP == 8      \* bytes a Record holds
MAX_MULTI_IDS == 2   \* instances per topic
MAX_STREAMS == 3     \* slots of the subscription table

(* ---------------- bounds of the model --------------------------------- *)
MaxOps == 5           \* operations in a run of the pipeline
MaxProducerOps == 3   \* operations in a run of the producers alone
MaxExporterOps == 4   \* operations in a run of the exporter alone
MaxQueueCap == 2
MaxFaultOps == 6       \* operations in a run of the pipeline on a failing sink
MaxFuel == 2           \* write_all calls a failing sink takes after the startup
MaxSinkOps == 3        \* operations in a run of the exporter on a failing sink
MaxSinkFuel == 17      \* write_all calls a failing sink takes at most
MaxFrameOps == 2       \* frames written in a run of write_message
MaxParamOps == 2       \* operations in a run of the parameter operations
MaxEncodeOps == 3      \* operations in a run of data_instance
MaxWrapOps == 3        \* operations in a run of the producers near the counter limit
MaxAsyncOps == 5       \* operations in a run of the cooperative exporter
MaxEntries == 3        \* entries of a registry built in a run
MaxRegistryOps == 1    \* registries built in a run
MaxLogOps == 2         \* log records written in a run
MaxQueueOps == 4       \* operations on the queue alone
MaxFields == 2         \* fields of a struct the derivation is applied to
MaxWriterOps == 3      \* records written by the exporter of writer.rs
MaxRecoverOps == 3     \* operations in a run on a sink that recovers
MaxCfgIds == 3         \* largest MAX_MULTI_IDS of the exporters of any configuration
MaxCfgStreams == 3     \* largest MAX_STREAMS of the exporters of any configuration
MaxIndexOps == 3       \* operations of an exporter of any configuration
MaxSharedOps == 4      \* operations of producers and exporter instantiated alike
MaxRunOps == 4         \* operations around a run of the cooperative exporter
MaxSaturateOps == 3    \* operations of an exporter near the limit of dropped_streams
MaxSaturateGap == 1    \* how far below the limit dropped_streams starts
MaxWrapGap == 1        \* how far below the limit dropped_total starts

Producers == {1, 2}

(* ---------------- integer widths -------------------------------------- *)
U8_MAX == 255
\* const RECORD_CAP: usize = 256 of ULogProducer
DEFAULT_RECORD_CAP == 256
U16_MAX == 65535
\* Model integers are 32-bit signed: the u32 counters are modelled 31 bits wide.
\* Only the runs of SpecWrap come near the limit.
U32_MAX == 2147483647
\* usize is at least 16 bits wide (usize::from(u16) exists); the narrowest is taken
USIZE_MAX == U16_MAX

(* ---------------- byte helpers ---------------------------------------- *)
Min(a, b) == IF a < b THEN a ELSE b

Zeros(n) == [i \in 1..n |-> 0]

\* n.to_le_bytes() for an unsigned integer of w bytes
RECURSIVE to_le_bytes(_, _)
to_le_bytes(n, w) == IF w = 0 THEN <<>> ELSE <<n % 256>> \o to_le_bytes(n \div 256, w - 1)

RECURSIVE SumLen(_)
SumLen(parts) == IF parts = <<>> THEN 0 ELSE Len(Head(parts)) + SumLen(Tail(parts))

(* ---------------- user message types and the registry ----------------- *)
\* "uint64_t timestamp;"
FmtTimestamp ==
    <<117, 105, 110, 116, 54, 52, 95, 116, 32, 116, 105, 109, 101, 115, 116, 97, 109, 112, 59>>

\* "uint8_t k;"
FmtK == <<117, 105, 110, 116, 56, 95, 116, 32, 107, 59>>

\* The user telemetry types: T1 "s" {timestamp, k: u8}, T2 "gk" {timestamp},
\* and T3, a type whose TopicOf binding was written by hand with an index
\* outside the registry.
UserTypes ==
    << [NAME |-> <<115>>, FORMAT |-> FmtTimestamp \o FmtK, WIRE_SIZE |-> 9, TOPIC |-> 0,
        ENCODE |-> "derived"],
       [NAME |-> <<103, 107>>, FORMAT |-> FmtTimestamp, WIRE_SIZE |-> 8, TOPIC |-> 1,
        ENCODE |-> "derived"],
       [NAME |-> <<120>>, FORMAT |-> FmtTimestamp, WIRE_SIZE |-> 8, TOPIC |-> 2,
        ENCODE |-> "derived"] >>

\* Types whose ULogData impl is written by hand and bound to topic 1: one
\* whose encode returns Ok(WIRE_SIZE) and leaves the buffer as it was, one
\* whose encode writes the low 4 bytes of the timestamp and returns Ok(4),
\* and one whose encode returns a length one past the buffer it was given.
HandTypes ==
    << [NAME |-> <<103, 107>>, FORMAT |-> FmtTimestamp, WIRE_SIZE |-> 8, TOPIC |-> 1,
        ENCODE |-> "silent"],
       [NAME |-> <<103, 107>>, FORMAT |-> FmtTimestamp, WIRE_SIZE |-> 8, TOPIC |-> 1,
        ENCODE |-> "short"],
       [NAME |-> <<103, 107>>, FORMAT |-> FmtTimestamp, WIRE_SIZE |-> 8, TOPIC |-> 1,
        ENCODE |-> "long"] >>

AllTypes == UserTypes \o HandTypes

\* The registry the producers and the exporter are instantiated with: a
\* static table, fixed for the run.
VARIABLE registry

\* Mutant of str_eq: the lengths are not compared, b is read as far as a goes.
str_eq_prefix(a, b) ==
    LET RECURSIVE loop(_)
        loop(i) == IF i > Len(a) THEN TRUE
                   ELSE IF i > Len(b) \/ a[i] # b[i] THEN FALSE
                   ELSE loop(i + 1)
    IN  loop(1)

\* str_eq: the length test, then the byte loop
str_eq(a, b) ==
    LET RECURSIVE loop(_)
        loop(i) == IF i > Len(a) THEN TRUE
                   ELSE IF a[i] # b[i] THEN FALSE
                   ELSE loop(i + 1)
    IN  IF Len(a) # Len(b) THEN FALSE ELSE loop(1)

\* Registry::new: the two nested loops over i < j; the result is the panic of
\* the constant evaluation or the registry holding the entries as given.
Registry_new(entries) ==
    LET RECURSIVE inner(_, _)
        inner(i, j) == IF j > Len(entries) THEN FALSE
                       ELSE IF str_eq(entries[i].name, entries[j].name) THEN TRUE
                       ELSE inner(i, j + 1)
        RECURSIVE outer(_)
        outer(i) == IF i > Len(entries) THEN FALSE
                    ELSE IF inner(i, i + 1) THEN TRUE
                    ELSE outer(i + 1)
    IN  IF outer(1) THEN [panic |-> TRUE] ELSE [panic |-> FALSE, entries |-> entries]

\* Mutant of topic_index_impl: the successor is bound to the head.
RECURSIVE topic_index_impl_next(_, _)
topic_index_impl_next(idx, types) ==
    IF types = <<>> THEN <<>>
    ELSE <<idx + 1>> \o topic_index_impl_next(idx + 1, Tail(types))

\* __register_messages_impl_topic_index!: INDEX = $idx for the head, then the
\* tail with $idx + 1; the result lists INDEX in declaration order.
RECURSIVE topic_index_impl(_, _)
topic_index_impl(idx, types) ==
    IF types = <<>> THEN <<>>
    ELSE <<idx>> \o topic_index_impl(idx + 1, Tail(types))

\* register_messages! over a list of types: the TopicIndex bindings starting
\* at 0u16 and the REGISTRY built by Registry::new from one MessageMeta per
\* type.
register_messages(types) ==
    [INDEX |-> topic_index_impl(0, types),
     REGISTRY |-> Registry_new([i \in 1..Len(types) |->
                                   [name |-> types[i].NAME,
                                    format |-> types[i].FORMAT,
                                    wire_size |-> types[i].WIRE_SIZE]])]

\* register_messages! over the first n user types
RegisterMessages(n) == register_messages(SubSeq(UserTypes, 1, n)).REGISTRY.entries

\* enum TestMessages { T1, T2 } and enum EmptyMessages {}
TestMessages == RegisterMessages(2)
EmptyMessages == RegisterMessages(0)

\* Registry::len
registry_len == Len(registry)

None == [some |-> FALSE]
Some(v) == [some |-> TRUE, v |-> v]

\* Registry::get: partial, index is 0-based
registry_get(index) == IF index >= registry_len THEN None ELSE Some(registry[index + 1])

(* ---------------- the ULogData derivation (uf_ulog_macro) -------------- *)
\* PrimitiveKind::size and PrimitiveKind::ulog_name of the field types u8
\* and u64: "uint8_t", "uint64_t"
PrimitiveKind ==
    [u8 |-> [size |-> 1, ulog_name |-> <<117, 105, 110, 116, 56, 95, 116>>],
     u64 |-> [size |-> 8, ulog_name |-> <<117, 105, 110, 116, 54, 52, 95, 116>>]]

\* the identifier "timestamp"
IdentTimestamp == <<116, 105, 109, 101, 115, 116, 97, 109, 112>>

\* validate_timestamp_field: fields.iter().find(ident == "timestamp"), then
\* the type of the field found must be u64
validate_timestamp_field(fields) ==
    LET found == SelectSeq(fields, LAMBDA f : f.name = IdentTimestamp)
    IN  IF found = <<>> THEN "Err"
        ELSE IF found[1].ty # "u64" THEN "Err"
        ELSE "Ok"

\* expand_derive for a struct of named fields, and the generated encode
\* applied to a value of the struct with a buffer of WIRE_SIZE bytes:
\* build_format_string joins "<type> <name>;" per field, WIRE_SIZE sums the
\* sizes, build_encode_body lays the fields out little-endian, all three in
\* declaration order.
expand_derive(fields, value) ==
    LET RECURSIVE format(_)
        format(fs) == IF fs = <<>> THEN <<>>
                      ELSE PrimitiveKind[Head(fs).ty].ulog_name \o <<32>> \o Head(fs).name
                           \o <<59>> \o format(Tail(fs))
        RECURSIVE body(_)
        body(fs) == IF fs = <<>> THEN <<>>
                    ELSE to_le_bytes(value[Head(fs).name], PrimitiveKind[Head(fs).ty].size)
                         \o body(Tail(fs))
    IN  IF validate_timestamp_field(fields) # "Ok" THEN [err |-> "Err"]
        ELSE [err |-> "None", FORMAT |-> format(fields), WIRE_SIZE |-> Len(body(fields)),
              encoded |-> body(fields)]

(* ---------------- wire helpers (writer_common.rs) --------------------- *)
\* Mutant of registry_entry: an unknown topic is reported as TooManyStreams.
registry_entry_other(topic_index) ==
    LET e == registry_get(topic_index)
    IN  IF e.some THEN [err |-> "None", meta |-> e.v]
        ELSE [err |-> "TooManyStreams"]

\* registry_entry: Ok(meta) or Err(InvalidTopicIndex)
registry_entry(topic_index) ==
    LET e == registry_get(topic_index)
    IN  IF e.some THEN [err |-> "None", meta |-> e.v]
        ELSE [err |-> "InvalidTopicIndex"]

\* Mutant of stream_slot: the topic index is not scaled by MAX_MULTI_IDS.
stream_slot_sum(topic_index, instance) ==
    IF topic_index > USIZE_MAX - instance
    THEN None
    ELSE Some(topic_index + instance)

\* stream_slot: topic_index.checked_mul(MAX_MULTI_IDS).and_then(checked_add(instance))
stream_slot(topic_index, instance) ==
    IF MAX_MULTI_IDS # 0 /\ topic_index > USIZE_MAX \div MAX_MULTI_IDS
    THEN None
    ELSE IF topic_index * MAX_MULTI_IDS > USIZE_MAX - instance
         THEN None
         ELSE Some(topic_index * MAX_MULTI_IDS + instance)

\* slot_msg_id: u16::try_from(slot)
slot_msg_id(slot) ==
    IF slot > U16_MAX THEN [err |-> "TooManyStreams"] ELSE [err |-> "None", msg_id |-> slot]

\* checked_total_len(base, extra, capacity)
checked_total_len(base, extra, capacity) ==
    IF base > USIZE_MAX - extra THEN [err |-> "MessageTooLarge"]
    ELSE IF base + extra > capacity THEN [err |-> "MessageTooLarge"]
    ELSE [err |-> "None", len |-> base + extra]

\* write_header: magic, version, timestamp as little-endian u64
ULOG_HEADER_MAGIC == <<85, 76, 111, 103, 1, 18, 53, 1>>

write_header_bytes(timestamp_micros) == ULOG_HEADER_MAGIC \o to_le_bytes(timestamp_micros, 8)

\* Mutant of message_header: a payload of exactly u16::MAX bytes is refused.
message_header_tight(payload_len, msg_type) ==
    IF payload_len >= U16_MAX THEN [err |-> "MessageTooLarge"]
    ELSE [err |-> "None", header |-> to_le_bytes(payload_len, 2) \o <<msg_type>>]

\* message_header: size as little-endian u16, then the type byte
message_header(payload_len, msg_type) ==
    IF payload_len > U16_MAX THEN [err |-> "MessageTooLarge"]
    ELSE [err |-> "None", header |-> to_le_bytes(payload_len, 2) \o <<msg_type>>]

\* The fixed leading bytes of each payload and the capacity its length is
\* checked against, as laid out by the *_payload functions.
\* Mutant of add_subscription_prefix: msg_id is laid out before the instance.
add_subscription_prefix_idfirst(multi_id, msg_id) == to_le_bytes(msg_id, 2) \o <<multi_id>>

add_subscription_prefix(multi_id, msg_id) == <<multi_id>> \o to_le_bytes(msg_id, 2)

data_prefix(msg_id) == to_le_bytes(msg_id, 2)

log_prefix(level, timestamp) == <<level>> \o to_le_bytes(timestamp, 8)

\* Mutant of tagged_log_prefix: the timestamp is laid out before the tag.
tagged_log_prefix_tslead(level, tag, timestamp) ==
    <<level>> \o to_le_bytes(timestamp, 8) \o to_le_bytes(tag, 2)

tagged_log_prefix(level, tag, timestamp) ==
    <<level>> \o to_le_bytes(tag, 2) \o to_le_bytes(timestamp, 8)

format_payload_len(name, format) ==
    LET off == checked_total_len(Len(name), 1, 512)
    IN  IF off.err # "None" THEN off ELSE checked_total_len(off.len, Len(format), 512)

add_subscription_payload_len(name) == checked_total_len(3, Len(name), 256)

data_payload_len(data_len) == checked_total_len(2, data_len, 1024)

log_payload_len(text_len) == checked_total_len(9, text_len, 512)

tagged_log_payload_len(text_len) == checked_total_len(11, text_len, 512)

\* parameter_payload: key length must fit a u8
parameter_prefix(key) ==
    IF Len(key) > U8_MAX THEN [err |-> "MessageTooLarge"]
    ELSE [err |-> "None", prefix |-> <<Len(key)>>]

parameter_payload_len(key, value) ==
    IF Len(key) > U8_MAX THEN [err |-> "MessageTooLarge"]
    ELSE LET off == checked_total_len(1, Len(key), 512)
         IN  IF off.err # "None" THEN off ELSE checked_total_len(off.len, Len(value), 512)

(* ---------------- the byte sink --------------------------------------- *)
\* A writer is [bytes, fuel, err]: the bytes written so far, the number of
\* write_all calls that still succeed (NoFault: all of them) and the error
\* the last call returned.
NoFault == -1

\* tried counts the write_all calls made on the sink, the failing one included
Writer(bytes, fuel) == [bytes |-> bytes, fuel |-> fuel, err |-> "None", tried |-> 0]

Fail(w, err) == [bytes |-> w.bytes, fuel |-> w.fuel, err |-> err, tried |-> w.tried]

\* write_all: self.writer.write_all(bytes).map_err(ExportError::Write)
write_all(w, bytes) ==
    IF w.fuel = 0 THEN [Fail(w, "Write") EXCEPT !.tried = @ + 1]
    ELSE [bytes |-> w.bytes \o bytes,
          fuel |-> IF w.fuel = NoFault THEN NoFault ELSE w.fuel - 1,
          err |-> "None",
          tried |-> w.tried + 1]

\* Mutant of write_parts: a part whose write failed is written once more.
RECURSIVE write_parts_retry(_, _)
write_parts_retry(w, parts) ==
    IF parts = <<>> THEN w
    ELSE LET r == write_all(w, Head(parts))
         IN  IF r.err # "None" THEN write_all(r, Head(parts))
             ELSE write_parts_retry(r, Tail(parts))

RECURSIVE write_parts(_, _)
write_parts(w, parts) ==
    IF parts = <<>> THEN w
    ELSE LET r == write_all(w, Head(parts))
         IN  IF r.err # "None" THEN r ELSE write_parts(r, Tail(parts))

RECURSIVE parts_total_len(_, _)
parts_total_len(payload_len, parts) ==
    IF parts = <<>> THEN [err |-> "None", len |-> payload_len]
    ELSE LET t == checked_total_len(payload_len, Len(Head(parts)), USIZE_MAX)
         IN  IF t.err # "None" THEN t ELSE parts_total_len(t.len, Tail(parts))

\* write_message: header, then the payload in one write
write_message(w, msg_type, payload) ==
    LET h == message_header(Len(payload), msg_type)
    IN  IF h.err # "None" THEN Fail(w, h.err)
        ELSE LET r == write_all(w, h.header)
             IN  IF r.err # "None" THEN r ELSE write_all(r, payload)

\* Mutant of write_message_parts: the header follows the parts.
write_message_parts_late(w, msg_type, parts) ==
    LET t == parts_total_len(0, parts)
    IN  IF t.err # "None" THEN Fail(w, t.err)
        ELSE LET h == message_header(t.len, msg_type)
             IN  IF h.err # "None" THEN Fail(w, h.err)
                 ELSE LET r == write_parts(w, parts)
                      IN  IF r.err # "None" THEN r ELSE write_all(r, h.header)

\* write_message_parts: total length, header, then one write per part
write_message_parts(w, msg_type, parts) ==
    LET t == parts_total_len(0, parts)
    IN  IF t.err # "None" THEN Fail(w, t.err)
        ELSE LET h == message_header(t.len, msg_type)
             IN  IF h.err # "None" THEN Fail(w, h.err)
                 ELSE LET r == write_all(w, h.header)
                      IN  IF r.err # "None" THEN r ELSE write_parts(r, parts)

write_header(w, timestamp_micros) == write_all(w, write_header_bytes(timestamp_micros))

\* 'B' = 66
write_flag_bits(w) == write_message(w, 66, Zeros(40))

\* 'F' = 70, ':' = 58
write_format(w, name, format) ==
    LET l == format_payload_len(name, format)
    IN  IF l.err # "None" THEN Fail(w, l.err)
        ELSE write_message_parts(w, 70, <<name, <<58>>, format>>)

\* 'A' = 65
write_add_subscription(w, multi_id, msg_id, name) ==
    LET l == add_subscription_payload_len(name)
    IN  IF l.err # "None" THEN Fail(w, l.err)
        ELSE write_message_parts(w, 65, <<add_subscription_prefix(multi_id, msg_id), name>>)

\* 'D' = 68
write_data(w, msg_id, data) ==
    LET l == data_payload_len(Len(data))
    IN  IF l.err # "None" THEN Fail(w, l.err)
        ELSE write_message_parts(w, 68, <<data_prefix(msg_id), data>>)

\* 'L' = 76
write_log(w, level, timestamp, text) ==
    LET l == log_payload_len(Len(text))
    IN  IF l.err # "None" THEN Fail(w, l.err)
        ELSE write_message_parts(w, 76, <<log_prefix(level, timestamp), text>>)

\* 'C' = 67
write_tagged_log(w, level, tag, timestamp, text) ==
    LET l == tagged_log_payload_len(Len(text))
    IN  IF l.err # "None" THEN Fail(w, l.err)
        ELSE write_message_parts(w, 67, <<tagged_log_prefix(level, tag, timestamp), text>>)

\* 'P' = 80; value is the 4 little-endian bytes of the i32 or f32
write_parameter(w, key, value) ==
    LET raw == to_le_bytes(value.v, 4)
        l == parameter_payload_len(key, raw)
        k == parameter_prefix(key)
    IN  IF l.err # "None" THEN Fail(w, l.err)
        ELSE IF k.err # "None" THEN Fail(w, k.err)
        ELSE write_message_parts(w, 80, <<k.prefix, key, raw>>)

(* ---------------- the exporter (exporter.rs, exporter_async.rs) ------- *)
\* An exporter is [started, subscribed, dropped_streams]; each operation
\* returns the exporter and the writer it leaves, the writer's err being the
\* operation's result.
ExporterNew == [started |-> FALSE,
                subscribed |-> [slot \in 0..(MAX_STREAMS - 1) |-> 0],
                dropped_streams |-> 0]

\* Mutant of saturating_add: the sum wraps around.
wrapping_add(x, n) == IF x > U32_MAX - n THEN x - U32_MAX - 1 + n ELSE x + n

saturating_add(x, n) == IF x > U32_MAX - n THEN U32_MAX ELSE x + n

\* Mutant of write_formats: the entries are written last to first.
RECURSIVE write_formats_rev(_, _)
write_formats_rev(w, entries) ==
    IF entries = <<>> THEN w
    ELSE LET r == write_format(w, entries[Len(entries)].name, entries[Len(entries)].format)
         IN  IF r.err # "None" THEN r
             ELSE write_formats_rev(r, SubSeq(entries, 1, Len(entries) - 1))

RECURSIVE write_formats(_, _)
write_formats(w, entries) ==
    IF entries = <<>> THEN w
    ELSE LET r == write_format(w, Head(entries).name, Head(entries).format)
         IN  IF r.err # "None" THEN r ELSE write_formats(r, Tail(entries))

\* Mutant of emit_startup: the startup sequence is written on every call.
emit_startup_again(e, w, timestamp_micros) ==
    LET h == write_header(w, timestamp_micros)
        b == write_flag_bits(h)
        f == write_formats(b, registry)
    IN  IF h.err # "None" THEN [e |-> e, w |-> h]
        ELSE IF b.err # "None" THEN [e |-> e, w |-> b]
        ELSE IF f.err # "None" THEN [e |-> e, w |-> f]
        ELSE [e |-> [e EXCEPT !.started = TRUE], w |-> f]

\* Mutant of emit_startup: the exporter is started although a format frame
\* failed.
emit_startup_anyway(e, w, timestamp_micros) ==
    IF e.started THEN [e |-> e, w |-> w]
    ELSE LET h == write_header(w, timestamp_micros)
             b == write_flag_bits(h)
             f == write_formats(b, registry)
         IN  IF h.err # "None" THEN [e |-> e, w |-> h]
             ELSE IF b.err # "None" THEN [e |-> e, w |-> b]
             ELSE [e |-> [e EXCEPT !.started = TRUE], w |-> f]

\* Mutant of emit_startup: a successful startup forgets the subscriptions.
emit_startup_reset(e, w, timestamp_micros) ==
    LET h == write_header(w, timestamp_micros)
        b == write_flag_bits(h)
        f == write_formats(b, registry)
    IN  IF e.started THEN [e |-> e, w |-> w]
        ELSE IF h.err # "None" THEN [e |-> e, w |-> h]
        ELSE IF b.err # "None" THEN [e |-> e, w |-> b]
        ELSE IF f.err # "None" THEN [e |-> e, w |-> f]
        ELSE [e |-> [e EXCEPT !.started = TRUE,
                              !.subscribed = [slot \in DOMAIN e.subscribed |-> 0]],
              w |-> f]

emit_startup(e, w, timestamp_micros) ==
    IF e.started THEN [e |-> e, w |-> w]
    ELSE LET h == write_header(w, timestamp_micros)
             b == write_flag_bits(h)
             f == write_formats(b, registry)
         IN  IF h.err # "None" THEN [e |-> e, w |-> h]
             ELSE IF b.err # "None" THEN [e |-> e, w |-> b]
             ELSE IF f.err # "None" THEN [e |-> e, w |-> f]
             ELSE [e |-> [e EXCEPT !.started = TRUE], w |-> f]

\* Mutant of write_subscribed: the slot is marked before the AddSubscription
\* frame is written.
write_subscribed_early(e, w, instance, slot, name, bytes) ==
    LET id == slot_msg_id(slot)
    IN  IF id.err # "None" THEN [e |-> e, w |-> Fail(w, id.err)]
        ELSE IF e.subscribed[slot] = 0
        THEN LET a == write_add_subscription(w, instance, id.msg_id, name)
             IN  IF a.err # "None" THEN [e |-> [e EXCEPT !.subscribed[slot] = 1], w |-> a]
                 ELSE [e |-> [e EXCEPT !.subscribed[slot] = 1],
                       w |-> write_data(a, id.msg_id, bytes)]
        ELSE [e |-> e, w |-> write_data(w, id.msg_id, bytes)]

\* The steps of write_record for a Data record once the instance is accepted
\* and the slot is within the stream budget.
write_subscribed(e, w, instance, slot, name, bytes) ==
    LET id == slot_msg_id(slot)
    IN  IF id.err # "None" THEN [e |-> e, w |-> Fail(w, id.err)]
        ELSE IF e.subscribed[slot] = 0
        THEN LET a == write_add_subscription(w, instance, id.msg_id, name)
             IN  IF a.err # "None" THEN [e |-> e, w |-> a]
                 ELSE [e |-> [e EXCEPT !.subscribed[slot] = 1],
                       w |-> write_data(a, id.msg_id, bytes)]
        ELSE [e |-> e, w |-> write_data(w, id.msg_id, bytes)]

\* Mutant of write_record_data: a record over the stream budget is dropped
\* without being counted.
write_record_data_uncounted(e, w, topic_index, instance, bytes) ==
    IF instance >= MAX_MULTI_IDS THEN [e |-> e, w |-> Fail(w, "InvalidMultiId")]
    ELSE LET m == registry_entry(topic_index)
             s == stream_slot(topic_index, instance)
         IN  IF m.err # "None" THEN [e |-> e, w |-> Fail(w, m.err)]
             ELSE IF ~s.some \/ s.v >= MAX_STREAMS THEN [e |-> e, w |-> w]
             ELSE write_subscribed(e, w, instance, s.v, m.meta.name, bytes)

\* Mutant of write_record_data: instance = MAX_MULTI_IDS passes the check.
write_record_data_lax(e, w, topic_index, instance, bytes) ==
    IF instance > MAX_MULTI_IDS THEN [e |-> e, w |-> Fail(w, "InvalidMultiId")]
    ELSE LET m == registry_entry(topic_index)
             s == stream_slot(topic_index, instance)
         IN  IF m.err # "None" THEN [e |-> e, w |-> Fail(w, m.err)]
             ELSE IF ~s.some \/ s.v >= MAX_STREAMS
             THEN [e |-> [e EXCEPT !.dropped_streams = saturating_add(@, 1)], w |-> w]
             ELSE write_subscribed(e, w, instance, s.v, m.meta.name, bytes)

\* Mutant of write_record_data: the slot is never marked subscribed.
write_record_data_nomark(e, w, topic_index, instance, bytes) ==
    IF instance >= MAX_MULTI_IDS THEN [e |-> e, w |-> Fail(w, "InvalidMultiId")]
    ELSE LET m == registry_entry(topic_index)
             s == stream_slot(topic_index, instance)
         IN  IF m.err # "None" THEN [e |-> e, w |-> Fail(w, m.err)]
             ELSE IF ~s.some \/ s.v >= MAX_STREAMS
             THEN [e |-> [e EXCEPT !.dropped_streams = saturating_add(@, 1)], w |-> w]
             ELSE LET a == write_add_subscription(w, instance, s.v, m.meta.name)
                  IN  [e |-> e, w |-> write_data(a, s.v, bytes)]

\* ULogExporter::write_record of writer.rs for a Data record: the exporter
\* that borrows its registry checks the topic index, then the instance;
\* its stream_slot fails with TooManyStreams on overflow and past MAX_STREAMS.
writer_write_record_data(e, w, topic_index, instance, bytes) ==
    LET s == stream_slot(topic_index, instance)
    IN  IF topic_index >= registry_len THEN [e |-> e, w |-> Fail(w, "InvalidTopicIndex")]
        ELSE IF instance >= MAX_MULTI_IDS THEN [e |-> e, w |-> Fail(w, "InvalidMultiId")]
        ELSE IF ~s.some THEN [e |-> e, w |-> Fail(w, "TooManyStreams")]
        ELSE IF s.v >= MAX_STREAMS THEN [e |-> e, w |-> Fail(w, "TooManyStreams")]
        ELSE write_subscribed(e, w, instance, s.v, registry[topic_index + 1].name, bytes)

write_record_data(e, w, topic_index, instance, bytes) ==
    IF instance >= MAX_MULTI_IDS THEN [e |-> e, w |-> Fail(w, "InvalidMultiId")]
    ELSE LET m == registry_entry(topic_index)
             s == stream_slot(topic_index, instance)
         IN  IF m.err # "None" THEN [e |-> e, w |-> Fail(w, m.err)]
             ELSE IF ~s.some
             THEN [e |-> [e EXCEPT !.dropped_streams = saturating_add(@, 1)], w |-> w]
             ELSE IF s.v >= MAX_STREAMS
             THEN [e |-> [e EXCEPT !.dropped_streams = saturating_add(@, 1)], w |-> w]
             ELSE write_subscribed(e, w, instance, s.v, m.meta.name, bytes)

write_record(e, w, record) ==
    CASE record.meta.kind = "LoggedString" ->
           [e |-> e,
            w |-> IF record.meta.tag.some
                  THEN write_tagged_log(w, record.meta.level, record.meta.tag.v,
                                        record.meta.ts, record.bytes)
                  ELSE write_log(w, record.meta.level, record.meta.ts, record.bytes)]
      [] record.meta.kind = "Data" ->
           write_record_data(e, w, record.meta.topic_index, record.meta.instance, record.bytes)
      [] record.meta.kind = "Parameter" ->
           [e |-> e, w |-> write_parameter(w, record.bytes, record.meta.value)]

\* An exporter of any configuration. MAX_STREAMS is the length N of its
\* table [u8; N] (StreamState for [u8; N]); an index outside the table
\* panics.
is_subscribed(table, slot) ==
    IF slot \in DOMAIN table THEN [panic |-> FALSE, v |-> table[slot] # 0]
    ELSE [panic |-> TRUE]

mark_subscribed(table, slot) ==
    IF slot \in DOMAIN table THEN [panic |-> FALSE, v |-> [table EXCEPT ![slot] = 1]]
    ELSE [panic |-> TRUE]

\* stream_slot::<MAX_MULTI_IDS> for any MAX_MULTI_IDS
stream_slot_of(multi_ids, topic_index, instance) ==
    IF multi_ids # 0 /\ topic_index > USIZE_MAX \div multi_ids
    THEN None
    ELSE IF topic_index * multi_ids > USIZE_MAX - instance
         THEN None
         ELSE Some(topic_index * multi_ids + instance)

\* Mutant of slot_over_budget: slot = MAX_STREAMS passes the check.
slot_over_budget_strict(slot, max_streams) == slot > max_streams

\* if slot >= MAX_STREAMS
slot_over_budget(slot, max_streams) == slot >= max_streams

\* write_record for a Data record by an exporter of multi_ids instances
\* per topic and a table of any length; `at` lists the indexes at which the
\* table was read or written, in order.
write_record_data_in(multi_ids, e, w, topic_index, instance, bytes) ==
    LET m == registry_entry(topic_index)
        s == stream_slot_of(multi_ids, topic_index, instance)
        dropped == [e |-> [e EXCEPT !.dropped_streams = saturating_add(@, 1)], w |-> w,
                    at |-> <<>>]
    IN  IF instance >= multi_ids
        THEN [e |-> e, w |-> Fail(w, "InvalidMultiId"), at |-> <<>>]
        ELSE IF m.err # "None" THEN [e |-> e, w |-> Fail(w, m.err), at |-> <<>>]
        ELSE IF ~s.some THEN dropped
        ELSE IF slot_over_budget(s.v, Cardinality(DOMAIN e.subscribed)) THEN dropped
        ELSE LET id == slot_msg_id(s.v)
                 r == is_subscribed(e.subscribed, s.v)
                 a == write_add_subscription(w, instance, id.msg_id, m.meta.name)
                 k == mark_subscribed(e.subscribed, s.v)
             IN  IF id.err # "None" THEN [e |-> e, w |-> Fail(w, id.err), at |-> <<>>]
                 ELSE IF r.panic THEN [e |-> e, w |-> Fail(w, "panic"), at |-> <<s.v>>]
                 ELSE IF r.v
                 THEN [e |-> e, w |-> write_data(w, id.msg_id, bytes), at |-> <<s.v>>]
                 ELSE IF a.err # "None" THEN [e |-> e, w |-> a, at |-> <<s.v>>]
                 ELSE IF k.panic THEN [e |-> e, w |-> Fail(a, "panic"), at |-> <<s.v, s.v>>]
                 ELSE [e |-> [e EXCEPT !.subscribed = k.v],
                       w |-> write_data(a, id.msg_id, bytes), at |-> <<s.v, s.v>>]

\* Mutant of try_recv: the newest record is taken first.
try_recv_lifo(q) ==
    IF q = <<>> THEN [rec |-> None, queue |-> q]
    ELSE [rec |-> Some(q[Len(q)]), queue |-> SubSeq(q, 1, Len(q) - 1)]

\* Mutant of try_recv: the record returned stays in the queue.
try_recv_keep(q) ==
    IF q = <<>> THEN [rec |-> None, queue |-> q]
    ELSE [rec |-> Some(Head(q)), queue |-> q]

\* try_recv of a bounded first-in first-out queue
try_recv(q) == IF q = <<>> THEN [rec |-> None, queue |-> q]
               ELSE [rec |-> Some(Head(q)), queue |-> Tail(q)]

\* Mutant of poll_once: the queue is polled before the exporter has started.
poll_once_unguarded(e, w, q) ==
    LET r == try_recv(q)
    IN  IF ~r.rec.some
        THEN [step |-> "Idle", e |-> e, w |-> w, queue |-> r.queue, rec |-> None]
        ELSE LET x == write_record(e, w, r.rec.v)
             IN  [step |-> IF x.w.err # "None" THEN "Err" ELSE "Progressed",
                  e |-> x.e, w |-> x.w, queue |-> r.queue, rec |-> r.rec]

\* Mutant of poll_once: a second record is taken and written when there is one.
poll_once_twice(e, w, q) ==
    IF ~e.started THEN [step |-> "Idle", e |-> e, w |-> w, queue |-> q, rec |-> None]
    ELSE LET r == try_recv(q)
         IN  IF ~r.rec.some
             THEN [step |-> "Idle", e |-> e, w |-> w, queue |-> r.queue, rec |-> None]
             ELSE LET x == write_record(e, w, r.rec.v)
                      r2 == try_recv(r.queue)
                      y == IF r2.rec.some /\ x.w.err = "None"
                           THEN write_record(x.e, x.w, r2.rec.v) ELSE x
                  IN  [step |-> IF y.w.err # "None" THEN "Err" ELSE "Progressed",
                       e |-> y.e, w |-> y.w, queue |-> r2.queue, rec |-> r.rec]

\* Mutant of poll_once: a record whose write failed goes back to the queue.
poll_once_requeue(e, w, q) ==
    IF ~e.started THEN [step |-> "Idle", e |-> e, w |-> w, queue |-> q, rec |-> None]
    ELSE LET r == try_recv(q)
         IN  IF ~r.rec.some
             THEN [step |-> "Idle", e |-> e, w |-> w, queue |-> r.queue, rec |-> None]
             ELSE LET x == write_record(e, w, r.rec.v)
                  IN  [step |-> IF x.w.err # "None" THEN "Err" ELSE "Progressed",
                       e |-> x.e, w |-> x.w,
                       queue |-> IF x.w.err # "None" THEN Append(r.queue, r.rec.v) ELSE r.queue,
                       rec |-> r.rec]

\* poll_once: [step, e, w, queue]; step is "Idle", "Progressed" or "Err"
poll_once(e, w, q) ==
    IF ~e.started THEN [step |-> "Idle", e |-> e, w |-> w, queue |-> q, rec |-> None]
    ELSE LET r == try_recv(q)
         IN  IF ~r.rec.some
             THEN [step |-> "Idle", e |-> e, w |-> w, queue |-> r.queue, rec |-> None]
             ELSE LET x == write_record(e, w, r.rec.v)
                  IN  [step |-> IF x.w.err # "None" THEN "Err" ELSE "Progressed",
                       e |-> x.e, w |-> x.w, queue |-> r.queue, rec |-> r.rec]

(* ---------------- records (data.rs) ----------------------------------- *)
\* Record::new_log: the text is clamped to the record capacity
new_log(level, tag, ts, text) ==
    [meta |-> [kind |-> "LoggedString", level |-> level, tag |-> tag, ts |-> ts],
     bytes |-> SubSeq(text, 1, Min(Len(text), RECORD_CAP))]

\* Record::new_data: heapless::Vec::from_slice(payload).ok()?
new_data(topic_index, instance, ts, payload) ==
    IF Len(payload) > RECORD_CAP THEN None
    ELSE Some([meta |-> [kind |-> "Data", topic_index |-> topic_index,
                         instance |-> instance, ts |-> ts],
               bytes |-> payload])

\* Record::<RECORD_CAP, _>::new_parameter, for the record capacity cap
new_parameter_cap(cap, key, value) ==
    IF Len(key) > U8_MAX THEN None
    ELSE IF Len(key) > cap THEN None
    ELSE Some([meta |-> [kind |-> "Parameter", value |-> value], bytes |-> key])

\* Record::new_parameter
new_parameter(key, value) == new_parameter_cap(RECORD_CAP, key, value)

(* ---------------- the queue ------------------------------------------- *)
\* Mutant of try_send: the queue takes one record more than its bound.
try_send_over(ch, item) ==
    IF ch.closed THEN [err |-> "Closed", queue |-> ch.queue]
    ELSE IF Len(ch.queue) > ch.capacity THEN [err |-> "Full", queue |-> ch.queue]
    ELSE [err |-> "None", queue |-> Append(ch.queue, item)]

\* Mutant of try_send: a full queue reports success and discards the record.
try_send_lossy(ch, item) ==
    IF ch.closed THEN [err |-> "Closed", queue |-> ch.queue]
    ELSE IF Len(ch.queue) >= ch.capacity THEN [err |-> "None", queue |-> ch.queue]
    ELSE [err |-> "None", queue |-> Append(ch.queue, item)]

\* Mutant of try_send: a full queue is reported before a closed one.
try_send_fullfirst(ch, item) ==
    IF Len(ch.queue) >= ch.capacity THEN [err |-> "Full", queue |-> ch.queue]
    ELSE IF ch.closed THEN [err |-> "Closed", queue |-> ch.queue]
    ELSE [err |-> "None", queue |-> Append(ch.queue, item)]

\* A channel is [queue, capacity, closed].  try_send of a bounded queue:
\* Closed once the receiving half is gone, Full at capacity.
try_send(ch, item) ==
    IF ch.closed THEN [err |-> "Closed", queue |-> ch.queue]
    ELSE IF Len(ch.queue) >= ch.capacity THEN [err |-> "Full", queue |-> ch.queue]
    ELSE [err |-> "None", queue |-> Append(ch.queue, item)]

(* ---------------- the producer (producer.rs) -------------------------- *)
\* AtomicU32::fetch_add(1): wrapping
fetch_add(d) == IF d = U32_MAX THEN 0 ELSE d + 1

\* Every producer operation returns [status, queue, dropped_total].
Dropped(ch, d) == [status |-> "Dropped", queue |-> ch.queue, dropped_total |-> fetch_add(d)]

\* Mutant of try_emit: a rejected enqueue is not counted.
try_emit_nocount(ch, d, record) ==
    LET r == try_send(ch, record)
    IN  IF r.err = "None"
        THEN [status |-> "Emitted", queue |-> r.queue, dropped_total |-> d]
        ELSE [status |-> "Dropped", queue |-> ch.queue, dropped_total |-> d]

try_emit(ch, d, record) ==
    LET r == try_send(ch, record)
    IN  IF r.err = "None"
        THEN [status |-> "Emitted", queue |-> r.queue, dropped_total |-> d]
        ELSE Dropped(ch, d)

\* Mutant of make_text: the end of a long message is kept, not its start.
make_text_tail(msg) ==
    SubSeq(msg, Len(msg) - Min(Len(msg), RECORD_CAP) + 1, Len(msg))

make_text(msg) == SubSeq(msg, 1, Min(Len(msg), RECORD_CAP))

log(ch, d, level, ts, msg) == try_emit(ch, d, new_log(level, None, ts, make_text(msg)))

log_tagged(ch, d, level, tag, ts, msg) ==
    try_emit(ch, d, new_log(level, Some(tag), ts, make_text(msg)))

\* heapless::String::<RECORD_CAP>: push_str / push fail when the capacity is exceeded
\* Mutant of parameter_cap: a key longer than 255 bytes that fits the record passes.
parameter_cap_nou8(cap, ch, d, ty, name, value) ==
    IF \/ Len(ty) > cap
       \/ Len(ty) + 1 > cap
       \/ Len(ty) + 1 + Len(name) > cap
    THEN Dropped(ch, d)
    ELSE try_emit(ch, d, [meta |-> [kind |-> "Parameter", value |-> value],
                          bytes |-> ty \o <<32>> \o name])

\* ULogProducer::<_, _, RECORD_CAP, _>::parameter, for the record capacity cap
parameter_cap(cap, ch, d, ty, name, value) ==
    IF \/ Len(ty) > cap
       \/ Len(ty) + 1 > cap
       \/ Len(ty) + 1 + Len(name) > cap
       \/ Len(ty) + 1 + Len(name) > U8_MAX
    THEN Dropped(ch, d)
    ELSE LET r == new_parameter_cap(cap, ty \o <<32>> \o name, value)
         IN  IF r.some THEN try_emit(ch, d, r.v) ELSE Dropped(ch, d)

parameter(ch, d, ty, name, value) == parameter_cap(RECORD_CAP, ch, d, ty, name, value)

\* "int32_t"
parameter_i32(ch, d, name, value) ==
    parameter(ch, d, <<105, 110, 116, 51, 50, 95, 116>>, name, [ty |-> "I32", v |-> value])

\* "float"
parameter_f32(ch, d, name, value) ==
    parameter(ch, d, <<102, 108, 111, 97, 116>>, name, [ty |-> "F32", v |-> value])

\* ULogData::encode of the user types: BufferOverflow when the buffer is shorter
\* than WIRE_SIZE, else the fields little-endian in declaration order.
encode(value, buf) ==
    LET size == AllTypes[value.ty].WIRE_SIZE
        how == AllTypes[value.ty].ENCODE
        fields == to_le_bytes(value.timestamp, 8) \o
                  (IF size > 8 THEN <<value.k>> ELSE <<>>)
    IN  IF how = "silent" THEN [err |-> "None", len |-> size, buf |-> buf]
        ELSE IF how = "long" THEN [err |-> "None", len |-> Len(buf) + 1, buf |-> buf]
        ELSE IF how = "short"
        THEN IF Len(buf) < 4 THEN [err |-> "BufferOverflow"]
             ELSE [err |-> "None", len |-> 4,
                   buf |-> to_le_bytes(value.timestamp, 4) \o SubSeq(buf, 5, Len(buf))]
        ELSE IF Len(buf) < size THEN [err |-> "BufferOverflow"]
        ELSE [err |-> "None", len |-> size,
              buf |-> fields \o SubSeq(buf, size + 1, Len(buf))]

\* Mutant of data_instance: the payload is the whole scratch buffer.
data_instance_whole(ch, d, value, instance) ==
    LET topic_index == AllTypes[value.ty].TOPIC
        enc == encode(value, Zeros(RECORD_CAP))
    IN  IF topic_index >= registry_len THEN Dropped(ch, d)
        ELSE IF instance >= MAX_MULTI_IDS THEN Dropped(ch, d)
        ELSE IF enc.err # "None" THEN Dropped(ch, d)
        ELSE IF enc.len > RECORD_CAP THEN Dropped(ch, d)
        ELSE LET r == new_data(topic_index, instance, value.timestamp, enc.buf)
             IN  IF r.some THEN try_emit(ch, d, r.v) ELSE Dropped(ch, d)

\* Mutant of data_instance: instance = MAX_MULTI_IDS passes the check.
data_instance_lax(ch, d, value, instance) ==
    LET topic_index == AllTypes[value.ty].TOPIC
        enc == encode(value, Zeros(RECORD_CAP))
    IN  IF topic_index >= registry_len THEN Dropped(ch, d)
        ELSE IF instance > MAX_MULTI_IDS THEN Dropped(ch, d)
        ELSE IF enc.err # "None" THEN Dropped(ch, d)
        ELSE IF enc.len > RECORD_CAP THEN Dropped(ch, d)
        ELSE LET r == new_data(topic_index, instance, value.timestamp,
                               SubSeq(enc.buf, 1, enc.len))
             IN  IF r.some THEN try_emit(ch, d, r.v) ELSE Dropped(ch, d)

\* Mutant of data_instance: the topic index is not checked against the
\* registry.
data_instance_anytopic(ch, d, value, instance) ==
    LET topic_index == AllTypes[value.ty].TOPIC
        enc == encode(value, Zeros(RECORD_CAP))
    IN  IF instance >= MAX_MULTI_IDS THEN Dropped(ch, d)
        ELSE IF enc.err # "None" THEN Dropped(ch, d)
        ELSE IF enc.len > RECORD_CAP THEN Dropped(ch, d)
        ELSE LET r == new_data(topic_index, instance, value.timestamp,
                               SubSeq(enc.buf, 1, enc.len))
             IN  IF r.some THEN try_emit(ch, d, r.v) ELSE Dropped(ch, d)

data_instance(ch, d, value, instance) ==
    LET topic_index == AllTypes[value.ty].TOPIC
        enc == encode(value, Zeros(RECORD_CAP))
    IN  IF topic_index >= registry_len THEN Dropped(ch, d)
        ELSE IF instance >= MAX_MULTI_IDS THEN Dropped(ch, d)
        ELSE IF enc.err # "None" THEN Dropped(ch, d)
        ELSE IF enc.len > RECORD_CAP THEN Dropped(ch, d)
        ELSE LET r == new_data(topic_index, instance, value.timestamp,
                               SubSeq(enc.buf, 1, enc.len))
             IN  IF r.some THEN try_emit(ch, d, r.v) ELSE Dropped(ch, d)

\* Mutant of data: the record goes to instance 1.
data_one(ch, d, value) == data_instance(ch, d, value, 1)

data(ch, d, value) == data_instance(ch, d, value, 0)

(* ---------------- state ----------------------------------------------- *)
VARIABLES
    capacity,         \* the queue's bound, fixed at construction
    closed,           \* the receiving half of the queue has been dropped
    queue,            \* the records in flight
    dropped_total,    \* per producer: ULogProducer::dropped_total
    calls,            \* per producer: number of producer calls made
    dropped_returns,  \* per producer: number of calls that returned Dropped
    variant,          \* "sync" (ULogExporter) or "async" (ULogAsyncExporter)
    pc,               \* "idle", or "recv" while the async poll_once awaits the queue
    started,          \* exporter field
    subscribed,       \* exporter field
    dropped_streams,  \* exporter field
    sink,             \* the bytes written to the sink
    slot_overflows,   \* history: Data records handed over whose slot is out of budget
    fuel,             \* sink: the number of write_all calls that still succeed
    write_errors,     \* history: records handed over for which write_record failed
    sink_calls,       \* history: write_all calls made on the sink
    last,             \* history: the last operation, its record and what it returned
    nops,             \* number of operations so far
    budget,           \* number of operations the run is limited to
    record_cap,       \* the RECORD_CAP the producers were built with
    max_multi_ids     \* the MAX_MULTI_IDS the exporter was built with

vars == <<registry, capacity, closed, queue, dropped_total, calls, dropped_returns, variant, pc,
          started, subscribed, dropped_streams, sink, slot_overflows, fuel, write_errors,
          sink_calls, last, nops, budget, record_cap, max_multi_ids>>

producerVars == <<dropped_total, calls, dropped_returns>>

exporterVars == <<started, subscribed, dropped_streams, sink, slot_overflows, fuel,
                  write_errors, sink_calls>>

Ch == [queue |-> queue, capacity |-> capacity, closed |-> closed]

Exporter == [started |-> started, subscribed |-> subscribed,
             dropped_streams |-> dropped_streams]

(* ---------------- inputs ---------------------------------------------- *)
\* "hi"
Hi == <<104, 105>>

\* a text longer than the record capacity: "0123456789ab"
LongText == <<48, 49, 50, 51, 52, 53, 54, 55, 56, 57, 97, 98>>

Msgs == {Hi, LongText}

\* parameter names: "" and "P"
Names == { <<>>, <<80>> }

\* LogLevel::Info = b'6', LogLevel::Err = b'3'
LevelInfo == 54
LevelErr == 51

Tags == {513}

StartupTimestamps == {0, 258}

\* The caller-supplied timestamp (or parameter value) of producer p's next call
\* names the call: producer and call number.
CallId(p) == p * 16 + calls[p] + 1

IdProducer(id) == id \div 16

IdSeq(id) == id % 16

Value(p, t) == [ty |-> t, timestamp |-> CallId(p), k |-> 7]

Instances == {0, MAX_MULTI_IDS - 1, MAX_MULTI_IDS}

\* Records built by hand with the Record constructors
DataRecords ==
    { new_data(t, i, 0, <<1, 2, 3, 4>>).v :
        t \in {0, 1, 2}, i \in {0, MAX_MULTI_IDS - 1, MAX_MULTI_IDS} }

DirectRecords == DataRecords \cup { new_log(LevelInfo, None, 0, Hi) }

\* the records a hand-written sender puts into the queue
SentRecords ==
    { new_data(0, 0, 0, <<1, 2, 3, 4>>).v,
      new_data(1, MAX_MULTI_IDS - 1, 0, <<1, 2, 3, 4>>).v,
      new_data(0, MAX_MULTI_IDS, 0, <<1, 2, 3, 4>>).v,
      new_log(LevelErr, Some(513), 0, Hi) }

\* Is the slot of a Data record out of the exporter's budget?  (history only)
SlotOverflow(record) ==
    /\ record.meta.kind = "Data"
    /\ record.meta.instance < MAX_MULTI_IDS
    /\ record.meta.topic_index < registry_len
    /\ record.meta.topic_index * MAX_MULTI_IDS + record.meta.instance >= MAX_STREAMS

(* ---------------- initial state --------------------------------------- *)
InitCounters(reg, cap, v, n, f, rc, d) ==
    /\ registry = reg
    /\ record_cap = rc
    /\ max_multi_ids = MAX_MULTI_IDS
    /\ capacity = cap
    /\ closed = FALSE
    /\ queue = <<>>
    /\ dropped_total = d
    /\ calls = [p \in Producers |-> 0]
    /\ dropped_returns = [p \in Producers |-> 0]
    /\ variant = v
    /\ pc = "idle"
    /\ started = ExporterNew.started
    /\ subscribed = ExporterNew.subscribed
    /\ dropped_streams = ExporterNew.dropped_streams
    /\ sink = <<>>
    /\ slot_overflows = 0
    /\ fuel = f
    /\ write_errors = 0
    /\ sink_calls = 0
    /\ last = [op |-> "new", who |-> 0, res |-> "None", rec |-> None, arg |-> 0]
    /\ nops = 0
    /\ budget = n

\* The initial state of producers that have dropped nothing
InitRecordCap(reg, cap, v, n, f, rc) ==
    InitCounters(reg, cap, v, n, f, rc, [p \in Producers |-> 0])

\* The initial state with the record capacity of the model
InitState(reg, cap, v, n, f) == InitRecordCap(reg, cap, v, n, f, RECORD_CAP)

\* The initial state on a sink that never fails
InitWith(reg, cap, v, n) == InitState(reg, cap, v, n, NoFault)

(* ---------------- producer operations --------------------------------- *)
ProducerCall(p, op, out, arg) ==
    /\ nops < budget
    /\ queue' = out.queue
    /\ dropped_total' = [dropped_total EXCEPT ![p] = out.dropped_total]
    /\ calls' = [calls EXCEPT ![p] = @ + 1]
    /\ dropped_returns' = [dropped_returns EXCEPT
                             ![p] = IF out.status = "Dropped" THEN @ + 1 ELSE @]
    /\ last' = [op |-> op, who |-> p, res |-> out.status, rec |-> None, arg |-> arg]
    /\ nops' = nops + 1
    /\ UNCHANGED <<registry, budget, record_cap, max_multi_ids, capacity, closed, variant, pc, exporterVars>>

Log(p, msg) ==
    ProducerCall(p, "log", log(Ch, dropped_total[p], LevelInfo, CallId(p), msg), msg)

LogTagged(p, tag, msg) ==
    ProducerCall(p, "log_tagged",
                 log_tagged(Ch, dropped_total[p], LevelErr, tag, CallId(p), msg), msg)

ParameterI32(p, name) ==
    ProducerCall(p, "parameter_i32", parameter_i32(Ch, dropped_total[p], name, CallId(p)),
                 name)

ParameterF32(p, name) ==
    ProducerCall(p, "parameter_f32", parameter_f32(Ch, dropped_total[p], name, CallId(p)),
                 name)

Data(p, t) ==
    ProducerCall(p, "data", data(Ch, dropped_total[p], Value(p, t)),
                 [t |-> t, instance |-> 0])

DataInstance(p, t, instance) ==
    ProducerCall(p, "data_instance",
                 data_instance(Ch, dropped_total[p], Value(p, t), instance),
                 [t |-> t, instance |-> instance])

\* A sender written by hand: try_send of a record built with the constructors
Send(record) ==
    LET r == try_send(Ch, record)
    IN  /\ nops < budget
        /\ queue' = r.queue
        /\ last' = [op |-> "try_send", who |-> 0,
                    res |-> IF r.err = "None" THEN "Ok" ELSE r.err, rec |-> None, arg |-> 0]
        /\ nops' = nops + 1
        /\ UNCHANGED <<registry, budget, record_cap, max_multi_ids, capacity, closed, variant, pc, exporterVars, producerVars>>

\* A receiver written by hand: one try_recv
Recv ==
    LET r == try_recv(queue)
    IN  /\ nops < budget
        /\ ~closed
        /\ queue' = r.queue
        /\ last' = [op |-> "try_recv", who |-> 0,
                    res |-> IF r.rec.some THEN "Some" ELSE "None", rec |-> r.rec, arg |-> 0]
        /\ nops' = nops + 1
        /\ UNCHANGED <<registry, budget, record_cap, max_multi_ids, capacity, closed, variant, pc, exporterVars, producerVars>>

(* ---------------- exporter operations --------------------------------- *)
\* The result of an exporter operation: Ok or the ExportError
Result(w) == IF w.err = "None" THEN "Ok" ELSE w.err

SetExporter(e, w) ==
    /\ started' = e.started
    /\ subscribed' = e.subscribed
    /\ dropped_streams' = e.dropped_streams
    /\ sink' = w.bytes
    /\ fuel' = w.fuel
    /\ sink_calls' = sink_calls + w.tried

Failed(rec, w) ==
    write_errors' = IF rec.some /\ w.err # "None" THEN write_errors + 1 ELSE write_errors

Handed(rec) ==
    slot_overflows' = IF rec.some /\ SlotOverflow(rec.v)
                      THEN slot_overflows + 1 ELSE slot_overflows

EmitStartup(ts) ==
    LET r == emit_startup(Exporter, Writer(sink, fuel), ts)
    IN  /\ nops < budget
        /\ ~closed
        /\ pc = "idle"
        /\ SetExporter(r.e, r.w)
        /\ last' = [op |-> "emit_startup", who |-> 0, res |-> Result(r.w), rec |-> None,
                    arg |-> ts]
        /\ nops' = nops + 1
        /\ UNCHANGED <<registry, budget, record_cap, max_multi_ids, capacity, closed, queue, variant, pc, slot_overflows,
                       write_errors, producerVars>>

\* ULogExporter::poll_once
PollOnce ==
    LET r == poll_once(Exporter, Writer(sink, fuel), queue)
    IN  /\ nops < budget
        /\ ~closed
        /\ variant = "sync"
        /\ SetExporter(r.e, r.w)
        /\ queue' = r.queue
        /\ Handed(r.rec)
        /\ Failed(r.rec, r.w)
        /\ last' = [op |-> "poll_once", who |-> 0,
                    res |-> IF r.step = "Err" THEN Result(r.w) ELSE r.step,
                    rec |-> r.rec, arg |-> 0]
        /\ nops' = nops + 1
        /\ UNCHANGED <<registry, budget, record_cap, max_multi_ids, capacity, closed, variant, pc, producerVars>>

\* ULogAsyncExporter::poll_once up to the await of recv
AsyncPollOnce ==
    /\ nops < budget
    /\ variant = "async"
    /\ pc = "idle"
    /\ IF ~started
       THEN /\ last' = [op |-> "poll_once", who |-> 0, res |-> "Idle", rec |-> None, arg |-> 0]
            /\ pc' = pc
       ELSE /\ last' = [op |-> "recv", who |-> 0, res |-> "Pending", rec |-> None, arg |-> 0]
            /\ pc' = "recv"
    /\ nops' = nops + 1
    /\ UNCHANGED <<registry, budget, record_cap, max_multi_ids, capacity, closed, queue, variant, exporterVars, producerVars>>

\* Mutant of AsyncCancel: the cancelled wait takes a record with it.
AsyncCancelTaking ==
    /\ nops < budget
    /\ variant = "async"
    /\ pc = "recv"
    /\ pc' = "idle"
    /\ queue' = IF queue = <<>> THEN queue ELSE Tail(queue)
    /\ last' = [op |-> "cancel", who |-> 0, res |-> "None", rec |-> None, arg |-> 0]
    /\ nops' = nops + 1
    /\ UNCHANGED <<registry, budget, record_cap, max_multi_ids, capacity, closed, variant, exporterVars, producerVars>>

\* The future of ULogAsyncExporter::poll_once is dropped while it awaits
\* recv: nothing after the await runs.
AsyncCancel ==
    /\ nops < budget
    /\ variant = "async"
    /\ pc = "recv"
    /\ pc' = "idle"
    /\ last' = [op |-> "cancel", who |-> 0, res |-> "None", rec |-> None, arg |-> 0]
    /\ nops' = nops + 1
    /\ UNCHANGED <<registry, budget, record_cap, max_multi_ids, capacity, closed, queue, variant, exporterVars, producerVars>>

\* ULogAsyncExporter::poll_once from the completion of recv
AsyncRecv ==
    /\ variant = "async"
    /\ pc = "recv"
    /\ queue # <<>>
    /\ LET r == try_recv(queue)
           x == write_record(Exporter, Writer(sink, fuel), r.rec.v)
       IN  /\ SetExporter(x.e, x.w)
           /\ queue' = r.queue
           /\ Handed(r.rec)
           /\ Failed(r.rec, x.w)
           /\ last' = [op |-> "poll_once", who |-> 0,
                       res |-> IF x.w.err # "None" THEN x.w.err ELSE "Progressed",
                       rec |-> r.rec, arg |-> 0]
    /\ pc' = "idle"
    /\ nops' = nops + 1
    /\ UNCHANGED <<registry, budget, record_cap, max_multi_ids, capacity, closed, variant, producerVars>>

\* ULogAsyncExporter::run is called and its future is polled; the exporter
\* is borrowed by the future from here on
Run ==
    /\ nops < budget
    /\ variant = "async"
    /\ pc = "idle"
    /\ pc' = "run"
    /\ last' = [op |-> "run", who |-> 0, res |-> "Pending", rec |-> None, arg |-> 0]
    /\ nops' = nops + 1
    /\ UNCHANGED <<registry, budget, record_cap, max_multi_ids, capacity, closed, queue,
                   variant, exporterVars, producerVars>>

\* Mutant of RunPollOnce: run returns Ok(()) when poll_once returned Idle.
RunPollOnceReturning ==
    /\ variant = "async"
    /\ pc = "run"
    /\ IF ~started
       THEN /\ last' = [op |-> "run", who |-> 0, res |-> "Ok", rec |-> None, arg |-> 0]
            /\ pc' = "done"
       ELSE /\ last' = [op |-> "recv", who |-> 0, res |-> "Pending", rec |-> None, arg |-> 0]
            /\ pc' = "run_recv"
    /\ UNCHANGED <<registry, budget, record_cap, max_multi_ids, capacity, closed, queue,
                   variant, nops, exporterVars, producerVars>>

\* One turn of the loop of run, up to the await of recv in poll_once: Idle
\* goes round the loop at once, without an await in between
RunPollOnce ==
    /\ variant = "async"
    /\ pc = "run"
    /\ IF ~started
       THEN /\ last' = [op |-> "poll_once", who |-> 0, res |-> "Idle", rec |-> None, arg |-> 0]
            /\ pc' = "run"
       ELSE /\ last' = [op |-> "recv", who |-> 0, res |-> "Pending", rec |-> None, arg |-> 0]
            /\ pc' = "run_recv"
    /\ UNCHANGED <<registry, budget, record_cap, max_multi_ids, capacity, closed, queue,
                   variant, nops, exporterVars, producerVars>>

\* The turn of the loop of run from the completion of recv: Progressed goes
\* round the loop, an error of write_record is returned by run
RunRecv ==
    /\ variant = "async"
    /\ pc = "run_recv"
    /\ queue # <<>>
    /\ LET r == try_recv(queue)
           x == write_record(Exporter, Writer(sink, fuel), r.rec.v)
       IN  /\ SetExporter(x.e, x.w)
           /\ queue' = r.queue
           /\ Handed(r.rec)
           /\ Failed(r.rec, x.w)
           /\ IF x.w.err # "None"
              THEN /\ last' = [op |-> "run", who |-> 0, res |-> x.w.err, rec |-> r.rec,
                               arg |-> 0]
                   /\ pc' = "done"
              ELSE /\ last' = [op |-> "poll_once", who |-> 0, res |-> "Progressed",
                               rec |-> r.rec, arg |-> 0]
                   /\ pc' = "run"
    /\ UNCHANGED <<registry, budget, record_cap, max_multi_ids, capacity, closed, variant,
                   nops, producerVars>>

\* write_record called by the exporter's owner with a record of its own
WriteRecord(record) ==
    LET x == write_record(Exporter, Writer(sink, fuel), record)
    IN  /\ nops < budget
        /\ ~closed
        /\ pc = "idle"
        /\ SetExporter(x.e, x.w)
        /\ Handed(Some(record))
        /\ Failed(Some(record), x.w)
        /\ last' = [op |-> "write_record", who |-> 0, res |-> Result(x.w),
                    rec |-> Some(record), arg |-> 0]
        /\ nops' = nops + 1
        /\ UNCHANGED <<registry, budget, record_cap, max_multi_ids, capacity, closed, queue, variant, pc, producerVars>>

\* write_record of the exporter of writer.rs, called by its owner with a
\* Data record
WriterWriteRecord(record) ==
    LET x == writer_write_record_data(Exporter, Writer(sink, fuel), record.meta.topic_index,
                                      record.meta.instance, record.bytes)
    IN  /\ nops < budget
        /\ SetExporter(x.e, x.w)
        /\ Handed(Some(record))
        /\ Failed(Some(record), x.w)
        /\ last' = [op |-> "write_record", who |-> 0, res |-> Result(x.w),
                    rec |-> Some(record), arg |-> 0]
        /\ nops' = nops + 1
        /\ UNCHANGED <<registry, budget, record_cap, max_multi_ids, capacity, closed, queue, variant, pc, producerVars>>

\* The sink, which had a bound on the writes it takes, takes every write
\* from now on (a transient fault of the transport is over).
SinkRecovers ==
    /\ nops < budget
    /\ fuel # NoFault
    /\ fuel' = NoFault
    /\ last' = [op |-> "recover", who |-> 0, res |-> "None", rec |-> None, arg |-> 0]
    /\ nops' = nops + 1
    /\ UNCHANGED <<registry, budget, record_cap, max_multi_ids, capacity, closed, queue, variant, pc, started,
                   subscribed, dropped_streams, sink, slot_overflows, write_errors, sink_calls,
                   producerVars>>

\* write_record of an exporter of any configuration, called by its owner
\* with a Data record; the indexes used on the table are kept in last.arg
WriteRecordIn(record) ==
    LET x == write_record_data_in(max_multi_ids, Exporter, Writer(sink, fuel),
                                  record.meta.topic_index, record.meta.instance,
                                  record.bytes)
    IN  /\ nops < budget
        /\ last.res # "panic"
        /\ SetExporter(x.e, x.w)
        /\ last' = [op |-> "write_record", who |-> 0, res |-> Result(x.w),
                    rec |-> Some(record), arg |-> x.at]
        /\ nops' = nops + 1
        /\ UNCHANGED <<registry, budget, record_cap, max_multi_ids, capacity, closed, queue,
                       variant, pc, slot_overflows, write_errors, producerVars>>

\* The receiver, and with it the receiving half of a std channel, is dropped
DropReceiver ==
    /\ nops < budget
    /\ ~closed
    /\ closed' = TRUE
    /\ last' = [op |-> "drop", who |-> 0, res |-> "None", rec |-> None, arg |-> 0]
    /\ nops' = nops + 1
    /\ UNCHANGED <<registry, budget, record_cap, max_multi_ids, capacity, queue, variant, pc, exporterVars, producerVars>>

(* ---------------- specifications -------------------------------------- *)
\* The pipeline: two producers, the queue, one exporter.
Init == InitWith(TestMessages, MaxQueueCap, "sync", MaxOps)

Next ==
    \/ \E p \in Producers : Log(p, Hi)
    \/ \E p \in Producers : ParameterF32(p, <<80>>)
    \/ \E p \in Producers, i \in 0..(MAX_MULTI_IDS - 1) : DataInstance(p, 2, i)
    \/ EmitStartup(0)
    \/ PollOnce

Spec == Init /\ [][Next]_vars

\* The producers alone, against a queue whose receiver is written by hand.
InitProducer == \E cap \in {1, MaxQueueCap} : InitWith(TestMessages, cap, "sync", MaxProducerOps)

NextProducer ==
    \/ \E p \in Producers, msg \in Msgs : Log(p, msg)
    \/ \E p \in Producers, tag \in Tags, msg \in Msgs : LogTagged(p, tag, msg)
    \/ \E p \in Producers : ParameterI32(p, <<80>>)
    \/ \E p \in Producers, name \in Names : ParameterF32(p, name)
    \/ \E p \in Producers, t \in 1..Len(UserTypes) : Data(p, t)
    \/ \E p \in Producers, t \in 1..registry_len, i \in Instances : DataInstance(p, t, i)
    \/ Recv
    \/ DropReceiver

SpecProducer == InitProducer /\ [][NextProducer]_vars

\* The exporter alone, fed by a sender written by hand.
InitExporter ==
    \E reg \in {TestMessages, EmptyMessages}, v \in {"sync", "async"} :
        InitWith(reg, MaxQueueCap, v, MaxExporterOps)

NextExporter ==
    \/ \E ts \in StartupTimestamps : EmitStartup(ts)
    \/ \E record \in DirectRecords : WriteRecord(record)
    \/ \E record \in SentRecords : Send(record)
    \/ PollOnce
    \/ AsyncPollOnce
    \/ AsyncRecv

SpecExporter == InitExporter /\ [][NextExporter]_vars

\* The pipeline on a sink that may fail: the sink takes the write_all calls
\* of emit_startup and then at most MaxFuel more, or never fails.
StartupWrites ==
    U8_MAX - emit_startup(ExporterNew, Writer(<<>>, U8_MAX), 0).w.fuel

SinkFuel(k) == IF k = NoFault THEN NoFault ELSE StartupWrites + k

InitFault ==
    \E k \in {NoFault} \cup 0..MaxFuel :
        InitState(TestMessages, 1, "sync", MaxFaultOps, SinkFuel(k))

NextFault ==
    \/ \E p \in Producers : Log(p, Hi)
    \/ \E p \in Producers, i \in 0..(MAX_MULTI_IDS - 1) : DataInstance(p, 2, i)
    \/ EmitStartup(0)
    \/ PollOnce

SpecFault == InitFault /\ [][NextFault]_vars

\* The exporter alone on a sink that fails after a number of write_all
\* calls fixed at the start (or never), fed records by its owner and by a
\* sender written by hand.
SinkRecords ==
    { new_log(LevelInfo, None, 0, Hi),
      new_log(LevelErr, Some(513), 0, Hi),
      new_parameter(<<102, 108, 111, 97, 116, 32, 80>>, [ty |-> "F32", v |-> 1]).v,
      new_data(0, 0, 0, <<1, 2, 3, 4>>).v }

InitSink ==
    \E k \in {NoFault} \cup 0..MaxSinkFuel :
        InitState(TestMessages, 1, "sync", MaxSinkOps, k)

NextSink ==
    \/ EmitStartup(0)
    \/ \E record \in SinkRecords : WriteRecord(record)
    \/ Send(new_data(0, 0, 0, <<1, 2, 3, 4>>).v)
    \/ PollOnce

SpecSink == InitSink /\ [][NextSink]_vars

\* write_message and write_message_parts alone, on payloads of lengths
\* around the u16 limit and a sink that may fail.
FrameLens == {0, 1, U16_MAX, U16_MAX + 1}

FrameParts ==
    { <<Zeros(2), Zeros(U16_MAX - 2)>>,
      <<Zeros(2), Zeros(U16_MAX - 1)>>,
      <<Zeros(U16_MAX), Zeros(1)>> }

FrameWritten(op, w, msg_type, len) ==
    /\ nops < budget
    /\ sink' = w.bytes
    /\ fuel' = w.fuel
    /\ sink_calls' = sink_calls + w.tried
    /\ last' = [op |-> op, who |-> 0, res |-> Result(w), rec |-> None,
                arg |-> [msg_type |-> msg_type, len |-> len]]
    /\ nops' = nops + 1
    /\ UNCHANGED <<registry, budget, record_cap, max_multi_ids, capacity, closed, queue, variant, pc, started, subscribed,
                   dropped_streams, slot_overflows, write_errors, producerVars>>

WriteMessage(msg_type, len) ==
    FrameWritten("write_message", write_message(Writer(sink, fuel), msg_type, Zeros(len)),
                 msg_type, len)

WriteMessageParts(msg_type, parts) ==
    FrameWritten("write_message_parts", write_message_parts(Writer(sink, fuel), msg_type, parts),
                 msg_type, SumLen(parts))

InitFrame ==
    \E k \in {NoFault} \cup 0..MaxFuel :
        InitState(EmptyMessages, 1, "sync", MaxFrameOps, k)

NextFrame ==
    \/ \E msg_type \in {76, 67}, len \in FrameLens : WriteMessage(msg_type, len)
    \/ \E parts \in FrameParts : WriteMessageParts(68, parts)

SpecFrame == InitFrame /\ [][NextFrame]_vars

\* The producers' parameter operations alone, for a record capacity chosen
\* at construction: the capacity of the other specifications or the default
\* of ULogProducer.  Names are runs of NUL bytes of the lengths that bring
\* the key to 255, 256 and 257 bytes.
ParamNameLens == {1, 247, 248, 249, 250, 251}

ParameterCap(p, ty, name) ==
    IF ty = "I32"
    THEN ProducerCall(p, "parameter_i32",
                      parameter_cap(record_cap, Ch, dropped_total[p],
                                    <<105, 110, 116, 51, 50, 95, 116>>, name,
                                    [ty |-> "I32", v |-> CallId(p)]), name)
    ELSE ProducerCall(p, "parameter_f32",
                      parameter_cap(record_cap, Ch, dropped_total[p],
                                    <<102, 108, 111, 97, 116>>, name,
                                    [ty |-> "F32", v |-> CallId(p)]), name)

InitParam ==
    \E rc \in {RECORD_CAP, DEFAULT_RECORD_CAP} :
        InitRecordCap(TestMessages, MaxQueueCap, "sync", MaxParamOps, NoFault, rc)

NextParam ==
    \/ \E p \in Producers, n \in ParamNameLens : ParameterCap(p, "I32", Zeros(n))
    \/ \E p \in Producers, n \in ParamNameLens : ParameterCap(p, "F32", Zeros(n))

SpecParam == InitParam /\ [][NextParam]_vars

\* data_instance alone, over the derived types and the types whose
\* ULogData impl is written by hand.
InitEncode == \E cap \in {1, MaxQueueCap} : InitWith(TestMessages, cap, "sync", MaxEncodeOps)

NextEncode ==
    \/ \E p \in Producers, t \in 1..Len(AllTypes) : DataInstance(p, t, 0)
    \/ Recv

SpecEncode == InitEncode /\ [][NextEncode]_vars

\* Producers that have been dropping for a long time: dropped_total starts
\* within MaxWrapGap of the largest value of the counter.
InitWrap ==
    \E d \in [Producers -> {U32_MAX - g : g \in 0..MaxWrapGap}] :
        InitCounters(TestMessages, 1, "sync", MaxWrapOps, NoFault, RECORD_CAP, d)

NextWrap ==
    \/ \E p \in Producers : Log(p, Hi)
    \/ \E p \in Producers : DataInstance(p, 2, MAX_MULTI_IDS)
    \/ Recv

SpecWrap == InitWrap /\ [][NextWrap]_vars

\* The cooperative exporter alone, fed by a sender written by hand, its
\* poll_once future completed or dropped by the executor.
InitAsync == InitWith(TestMessages, MaxQueueCap, "async", MaxAsyncOps)

NextAsync ==
    \/ EmitStartup(0)
    \/ \E record \in SentRecords : Send(record)
    \/ AsyncPollOnce
    \/ AsyncRecv
    \/ AsyncCancel

SpecAsync == InitAsync /\ [][NextAsync]_vars

\* The registry's construction alone: Registry::new over tables written by
\* hand, and register_messages! over lists of the declared types.  The
\* tables hold names of equal length differing in a byte, a name that is a
\* prefix of another, and equal names with different formats; the lists are
\* over the user types and the first of the hand-written types, which has
\* the name of T2.
Metas ==
    { [name |-> <<103, 107>>, format |-> FmtTimestamp, wire_size |-> 8],
      [name |-> <<103, 107>>, format |-> FmtTimestamp \o FmtK, wire_size |-> 9],
      [name |-> <<103>>, format |-> FmtTimestamp, wire_size |-> 8],
      [name |-> <<103, 115>>, format |-> FmtTimestamp, wire_size |-> 8] }

SeqsUpTo(S, n) == UNION { [1..k -> S] : k \in 0..n }

RegistryNew(entries) ==
    /\ nops < budget
    /\ LET r == Registry_new(entries)
       IN  last' = [op |-> "Registry::new", who |-> 0,
                    res |-> IF r.panic THEN "panic" ELSE "Ok",
                    rec |-> IF r.panic THEN None ELSE Some(r.entries),
                    arg |-> entries]
    /\ nops' = nops + 1
    /\ UNCHANGED <<registry, budget, record_cap, max_multi_ids, capacity, closed, queue, variant, pc, exporterVars,
                   producerVars>>

RegisterMessagesOver(decl) ==
    /\ nops < budget
    /\ LET r == register_messages([i \in 1..Len(decl) |-> AllTypes[decl[i]]])
       IN  last' = [op |-> "register_messages", who |-> 0,
                    res |-> IF r.REGISTRY.panic THEN "panic" ELSE "Ok",
                    rec |-> IF r.REGISTRY.panic THEN None
                            ELSE Some([REGISTRY |-> r.REGISTRY.entries, INDEX |-> r.INDEX]),
                    arg |-> decl]
    /\ nops' = nops + 1
    /\ UNCHANGED <<registry, budget, record_cap, max_multi_ids, capacity, closed, queue, variant, pc, exporterVars,
                   producerVars>>

InitRegistry == InitWith(EmptyMessages, 1, "sync", MaxRegistryOps)

\* The structs ULogData is derived for: up to MaxFields fields with distinct
\* names among timestamp, k and x, each of type u8 or u64; the value encoded
\* holds the timestamp 0x0102, k, and 7 for x.
DeriveInputs ==
    { fields \in SeqsUpTo([name : {IdentTimestamp, <<107>>, <<120>>}, ty : DOMAIN PrimitiveKind],
                          MaxFields) :
        \A i, j \in 1..Len(fields) : fields[i].name = fields[j].name => i = j }

Derive(fields, k) ==
    /\ nops < budget
    /\ LET value == [n \in {IdentTimestamp, <<107>>, <<120>>} |->
                        IF n = IdentTimestamp THEN 258 ELSE IF n = <<107>> THEN k ELSE 7]
           r == expand_derive(fields, value)
       IN  last' = [op |-> "derive", who |-> 0,
                    res |-> IF r.err = "None" THEN "Ok" ELSE r.err,
                    rec |-> IF r.err = "None" THEN Some(r) ELSE None,
                    arg |-> [fields |-> fields, timestamp |-> value[IdentTimestamp], k |-> k]]
    /\ nops' = nops + 1
    /\ UNCHANGED <<registry, budget, record_cap, max_multi_ids, capacity, closed, queue, variant, pc, exporterVars,
                   producerVars>>

NextRegistry ==
    \/ \E fields \in DeriveInputs, k \in {0, 255} : Derive(fields, k)
    \/ \E entries \in SeqsUpTo(Metas, MaxEntries) : RegistryNew(entries)
    \/ \E decl \in SeqsUpTo(1..(Len(UserTypes) + 1), MaxEntries) : RegisterMessagesOver(decl)

SpecRegistry == InitRegistry /\ [][NextRegistry]_vars

\* The exporter writing log records of its owner: every LogLevel, with and
\* without the tag 0x0201, an empty text and "hi", the timestamp 0x0102.
LogLevels == 48..55

LogRecords ==
    { new_log(level, tag, 258, text) :
        level \in LogLevels, tag \in {None, Some(513)}, text \in {<<>>, Hi} }

InitLog == InitWith(EmptyMessages, 1, "sync", MaxLogOps)

NextLog == \E record \in LogRecords : WriteRecord(record)

SpecLog == InitLog /\ [][NextLog]_vars

\* The queue alone, between a sender and a receiver written by hand, for
\* every bound up to MaxQueueCap.
InitQueue == \E cap \in 1..MaxQueueCap : InitWith(EmptyMessages, cap, "sync", MaxQueueOps)

NextQueue ==
    \/ \E record \in SentRecords : Send(record)
    \/ Recv
    \/ DropReceiver

SpecQueue == InitQueue /\ [][NextQueue]_vars

\* The exporter of writer.rs writing Data records of its owner.
InitWriter ==
    \E reg \in {TestMessages, EmptyMessages} : InitWith(reg, 1, "sync", MaxWriterOps)

NextWriter == \E record \in DataRecords : WriterWriteRecord(record)

SpecWriter == InitWriter /\ [][NextWriter]_vars

\* A registry of one type whose format does not fit the 512 bytes of the
\* format payload: 1 + 1 + 511 bytes
BigMessages == <<[name |-> <<115>>, format |-> Zeros(511), wire_size |-> 8]>>

\* The exporter on a sink whose fault is transient: the sink takes a number
\* of writes, fails, and may recover.
\* every kind of record, and a Data record past the stream budget
RecoverRecords == SinkRecords \cup { new_data(1, MAX_MULTI_IDS - 1, 0, <<1, 2, 3, 4>>).v }

InitRecover ==
    \E k \in {NoFault} \cup 0..MaxSinkFuel, reg \in {TestMessages, BigMessages} :
        InitState(reg, 1, "sync", MaxRecoverOps, k)

NextRecover ==
    \/ SinkRecovers
    \/ EmitStartup(0)
    \/ \E record \in RecoverRecords : WriteRecord(record)
    \/ \E i \in {0, MAX_MULTI_IDS} : Send(new_data(0, i, 0, <<1, 2, 3, 4>>).v)
    \/ PollOnce

SpecRecover == InitRecover /\ [][NextRecover]_vars

(* ---------------- reading the sink back ------------------------------- *)
\* The sink as a sequence of items [type, payload]: type 0 is a 16-byte file
\* header, type -1 the rest of a stream that does not parse, any other type
\* is a frame's message type.
RECURSIVE Frames(_)
Frames(b) ==
    IF b = <<>> THEN <<>>
    ELSE IF Len(b) >= 16 /\ SubSeq(b, 1, 8) = <<85, 76, 111, 103, 1, 18, 53, 1>>
    THEN <<[type |-> 0, payload |-> SubSeq(b, 9, 16)]>> \o Frames(SubSeq(b, 17, Len(b)))
    ELSE IF Len(b) < 3 \/ Len(b) < 3 + b[1] + 256 * b[2]
    THEN <<[type |-> -1, payload |-> b]>>
    ELSE <<[type |-> b[3], payload |-> SubSeq(b, 4, 3 + b[1] + 256 * b[2])]>>
         \o Frames(SubSeq(b, 4 + b[1] + 256 * b[2], Len(b)))

\* msg_id of an 'A' frame (after the instance byte) and of a 'D' frame
SubMsgId(f) == f.payload[2] + 256 * f.payload[3]

DataMsgId(f) == f.payload[1] + 256 * f.payload[2]

IsSub(f) == f.type = 65

IsData(f) == f.type = 68

\* The call id carried by a record frame: the timestamp of 'L', 'C' and 'D'
\* frames, the value of a 'P' frame (ids fit two bytes).
FrameId(f) ==
    CASE f.type = 76 -> f.payload[2] + 256 * f.payload[3]
      [] f.type = 67 -> f.payload[4] + 256 * f.payload[5]
      [] f.type = 68 -> f.payload[3] + 256 * f.payload[4]
      [] f.type = 80 -> f.payload[2 + f.payload[1]] + 256 * f.payload[3 + f.payload[1]]

IsRecordFrame(f) == f.type \in {76, 67, 68, 80}

WireIds(b) ==
    LET F == SelectSeq(Frames(b), IsRecordFrame)
    IN  [i \in 1..Len(F) |-> FrameId(F[i])]

RecordId(record) ==
    IF record.meta.kind = "Parameter" THEN record.meta.value.v ELSE record.meta.ts

\* Did the last operation hand a record to write_record?
Handled == last.rec.some /\ last.op \in {"poll_once", "write_record"}

\* A Data record that passes both checks of write_record
ValidData(record) ==
    /\ record.meta.kind = "Data"
    /\ record.meta.instance < MAX_MULTI_IDS
    /\ record.meta.topic_index < Len(registry)

(* ---------------- C1 --------------------------------------------------- *)
\* C1: on a sink that never fails, every (topic_index, instance) slot has at
\* most one 'A' frame on the wire, every 'A' frame is directly followed by a
\* 'D' frame of its slot, every 'D' frame has the 'A' frame of its slot
\* before it, and a Data record written for a slot ends the wire with the
\* 'D' frame of that slot.
C1_OneSubscriptionPerSlot ==
    LET F == Frames(sink)
    IN  /\ \A i \in DOMAIN F : F[i].type # -1
        /\ \A i, j \in DOMAIN F :
              (IsSub(F[i]) /\ IsSub(F[j]) /\ SubMsgId(F[i]) = SubMsgId(F[j])) => i = j
        /\ \A i \in DOMAIN F :
              IsSub(F[i]) => /\ i < Len(F)
                             /\ IsData(F[i + 1])
                             /\ DataMsgId(F[i + 1]) = SubMsgId(F[i])
        /\ \A j \in DOMAIN F :
              IsData(F[j]) => \E i \in 1..(j - 1) :
                                  IsSub(F[i]) /\ SubMsgId(F[i]) = DataMsgId(F[j])
        /\ (Handled /\ ValidData(last.rec.v) /\ ~SlotOverflow(last.rec.v)) =>
              /\ F # <<>>
              /\ IsData(F[Len(F)])
              /\ DataMsgId(F[Len(F)]) =
                     last.rec.v.meta.topic_index * MAX_MULTI_IDS + last.rec.v.meta.instance

\* Two Data records of one slot and one of another slot are on the wire.
C1_Witness ==
    LET F == Frames(sink)
    IN  /\ \E i, j \in DOMAIN F : i < j /\ IsData(F[i]) /\ IsData(F[j])
                                   /\ DataMsgId(F[i]) = DataMsgId(F[j])
        /\ \E i, j \in DOMAIN F : IsSub(F[i]) /\ IsSub(F[j]) /\ i # j

(* ---------------- C2 --------------------------------------------------- *)
\* C2 (producer order): the records of one producer appear on the wire in
\* the order of that producer's calls.
C2_ProducerOrder ==
    LET ids == WireIds(sink)
    IN  \A i, j \in DOMAIN ids :
            (i < j /\ IdProducer(ids[i]) = IdProducer(ids[j])) => IdSeq(ids[i]) < IdSeq(ids[j])

\* C2 (dequeue order): a poll_once that takes a record takes it off the
\* queue and appends that record's frame to the end of the wire; a record
\* whose slot is out of the stream budget has no frame and adds none.
C2_DequeueStep ==
    (last'.op = "poll_once" /\ last'.rec.some) =>
        /\ queue # <<>>
        /\ last'.rec.v = Head(queue)
        /\ queue' = Tail(queue)
        /\ WireIds(sink') = IF SlotOverflow(Head(queue)) THEN WireIds(sink)
                            ELSE Append(WireIds(sink), RecordId(Head(queue)))

\* C2: with producers sharing one bounded queue and a single exporter, the
\* frames appear on the sink in the order the exporter dequeued the records,
\* and two records of one producer appear in the order of its calls.
C2_WireOrder == []C2_ProducerOrder /\ [][C2_DequeueStep]_vars

\* Two records of one producer are on the wire, after both were in the queue together.
C2_Witness ==
    LET ids == WireIds(sink)
    IN  /\ Len(ids) = 2
        /\ IdProducer(ids[1]) = IdProducer(ids[2])
        /\ last.op = "poll_once"

(* ---------------- C3 --------------------------------------------------- *)
\* C3: dropped_count() of every producer equals the number of its calls
\* that returned Dropped.
C3_DroppedCount == \A p \in Producers : dropped_total[p] = dropped_returns[p]

\* A producer made three calls, one accepted and two dropped, one of the drops by a full queue.
C3_Witness ==
    \E p \in Producers :
        /\ calls[p] = 3
        /\ dropped_total[p] = 2
        /\ Len(queue) = capacity
        /\ last.res = "Dropped"
        /\ last.op = "log"

(* ---------------- C4 --------------------------------------------------- *)
ProducerOps == {"log", "log_tagged", "parameter_i32", "parameter_f32", "data", "data_instance"}

\* A step that is a call of producer p
ProducerStep(p) == last'.op \in ProducerOps /\ last'.who = p /\ calls'[p] = calls[p] + 1

C4_Step ==
    \A p \in Producers : ProducerStep(p) =>
        /\ (closed \/ Len(queue) >= capacity) =>
              /\ last'.res = "Dropped"
              /\ dropped_total'[p] = dropped_total[p] + 1
              /\ queue' = queue
        /\ queue' # queue =>
              /\ ~closed /\ Len(queue) < capacity
              /\ Len(queue') = Len(queue) + 1
              /\ SubSeq(queue', 1, Len(queue)) = queue
              /\ last'.res = "Emitted"
              /\ dropped_total'[p] = dropped_total[p]
        /\ last'.res = "Emitted" => queue' # queue
        /\ (last'.op \in {"log", "log_tagged"} /\ ~closed /\ Len(queue) < capacity) =>
              last'.res = "Emitted"
        /\ (capacity = 1 /\ ~closed /\ last'.op = "log" /\ nops = 0) =>
              last'.res = "Emitted"
        /\ (capacity = 1 /\ ~closed /\ last'.op = "log" /\ nops = 1
            /\ last.op = "log" /\ last.who = p) =>
              last'.res = "Dropped" /\ dropped_total'[p] = 1

\* C4: a producer call makes one enqueue attempt and never waits: with the
\* queue full or closed it returns Dropped, adds one to dropped_total and
\* leaves the queue as it was; a call that changes the queue appended exactly
\* one record and returns Emitted.  With a queue of capacity 1 and no
\* consumer the first log call is Emitted and the second is Dropped with
\* dropped_count() = 1.
C4_SingleEnqueueAttempt == [][C4_Step]_vars

\* Capacity 1, no consumer: after two log calls of one producer the first
\* record is in the queue and the second call returned Dropped.
C4_Witness ==
    \E p \in Producers :
        /\ capacity = 1
        /\ nops = 2
        /\ calls[p] = 2
        /\ last.op = "log"
        /\ last.res = "Dropped"
        /\ dropped_total[p] = 1
        /\ Len(queue) = 1
        /\ queue[1].meta.kind = "LoggedString"
        /\ ~queue[1].meta.tag.some

(* ---------------- C5 --------------------------------------------------- *)
C5_Step ==
    (last'.op = "emit_startup" /\ started) =>
        /\ last'.res = "Ok"
        /\ sink' = sink
        /\ started' = started
        /\ subscribed' = subscribed
        /\ dropped_streams' = dropped_streams

\* C5: once emit_startup has succeeded, every later emit_startup, with any
\* timestamp, returns success, writes nothing to the sink and leaves
\* started, subscribed and dropped_streams as they were.
C5_StartupIdempotent == [][C5_Step]_vars

\* A second emit_startup, with another timestamp than the one in the file
\* header, has returned after a Data record was written and subscribed.
C5_Witness ==
    LET F == Frames(sink)
    IN  /\ started
        /\ last.op = "emit_startup"
        /\ last.res = "Ok"
        /\ last.arg = 258
        /\ F # <<>>
        /\ F[1].type = 0
        /\ F[1].payload = <<0, 0, 0, 0, 0, 0, 0, 0>>
        /\ \E slot \in DOMAIN subscribed : subscribed[slot] = 1

(* ---------------- C6 --------------------------------------------------- *)
\* The startup sequence for a timestamp below 2^16, as items of Frames:
\* header, 'B' frame of 40 zero bytes, one 'F' frame "name:format" per entry.
C6_Expected(ts) ==
    << [type |-> 0, payload |-> <<ts % 256, ts \div 256, 0, 0, 0, 0, 0, 0>>],
       [type |-> 66, payload |-> [i \in 1..40 |-> 0]] >>
    \o [i \in 1..Len(registry) |->
          [type |-> 70, payload |-> registry[i].name \o <<58>> \o registry[i].format]]

C6_Step ==
    (last'.op = "emit_startup" /\ ~started /\ last'.res = "Ok") =>
        /\ started'
        /\ Len(sink') >= Len(sink)
        /\ SubSeq(sink', 1, Len(sink)) = sink
        /\ Frames(SubSeq(sink', Len(sink) + 1, Len(sink'))) = C6_Expected(last'.arg)
        /\ Len(sink') - Len(sink) =
              16 + 43 + SumLen([i \in 1..Len(registry) |->
                                   <<0, 0, 0>> \o registry[i].name \o <<58>> \o registry[i].format])

\* C6: the first successful emit_startup(ts) appends to the sink the 16-byte
\* file header carrying ts, one 'B' frame, then one 'F' frame per registry
\* entry in index order, and nothing else; with an empty registry it appends
\* no 'F' frame.
C6_StartupSequence == [][C6_Step]_vars

\* emit_startup(258) has succeeded on a registry of two entries.
C6_Witness ==
    /\ started
    /\ last.op = "emit_startup"
    /\ last.res = "Ok"
    /\ last.arg = 258
    /\ Len(registry) = 2
    /\ Len(Frames(sink)) = 4
    /\ Frames(sink)[1].payload = <<2, 1, 0, 0, 0, 0, 0, 0>>

(* ---------------- C7 --------------------------------------------------- *)
C7_Step ==
    (last'.op = "poll_once" /\ ~started) =>
        /\ last'.res = "Idle"
        /\ ~last'.rec.some
        /\ queue' = queue
        /\ sink' = sink
        /\ pc' = "idle"

\* C7: while no emit_startup has succeeded, poll_once of either exporter
\* returns Idle, receives nothing from the queue and writes nothing to the
\* sink; the queue is as it was.
C7_IdleBeforeStartup == [][C7_Step]_vars

\* poll_once has returned Idle on an exporter that was never started, with a
\* record waiting in the queue.
C7_Witness ==
    /\ ~started
    /\ last.op = "poll_once"
    /\ last.res = "Idle"
    /\ queue # <<>>
    /\ sink = <<>>

(* ---------------- C8 --------------------------------------------------- *)
\* Does write_record succeed for the record on a sink that never fails?
C8_Writable(record) ==
    \/ record.meta.kind \in {"LoggedString", "Parameter"}
    \/ ValidData(record)

\* The message types of the frames a record is serialized to
C8_FrameTypes(record) ==
    CASE record.meta.kind = "LoggedString" ->
           IF record.meta.tag.some THEN { <<67>> } ELSE { <<76>> }
      [] record.meta.kind = "Parameter" -> { <<80>> }
      [] record.meta.kind = "Data" -> { <<68>>, <<65, 68>> }

\* The message types of the frames that bytes b2 hold after the bytes b1
C8_Appended(b1, b2) ==
    LET F == Frames(SubSeq(b2, Len(b1) + 1, Len(b2)))
    IN  [i \in 1..Len(F) |-> F[i].type]

C8_Poll == last'.op = "poll_once" /\ started /\ variant = "sync"

C8_StepAsWritten ==
    C8_Poll =>
        IF queue = <<>>
        THEN last'.res = "Idle" /\ sink' = sink /\ queue' = queue
        ELSE /\ queue' = Tail(queue)
             /\ last'.rec = Some(Head(queue))
             /\ last'.res = "Progressed"

\* C8 as written: a Running poll_once returns Idle and writes nothing when
\* the queue is empty, and otherwise removes the record at the head of the
\* queue and returns Progressed.
C8_AsWritten == [][C8_StepAsWritten]_vars

C8_StepAmended ==
    C8_Poll =>
        IF queue = <<>>
        THEN last'.res = "Idle" /\ sink' = sink /\ queue' = queue
        ELSE /\ queue' = Tail(queue)
             /\ last'.rec = Some(Head(queue))
             /\ IF C8_Writable(Head(queue))
                THEN /\ last'.res = "Progressed"
                     /\ IF SlotOverflow(Head(queue)) THEN sink' = sink
                        ELSE /\ SubSeq(sink', 1, Len(sink)) = sink
                             /\ C8_Appended(sink, sink') \in C8_FrameTypes(Head(queue))
                ELSE /\ last'.res \in {"InvalidMultiId", "InvalidTopicIndex"}
                     /\ sink' = sink

\* C8 (amended): a Running poll_once of the non-suspending exporter removes
\* at most one record: it returns Idle and writes nothing when the queue is
\* empty; otherwise it removes exactly the record at the head of the queue
\* and hands it to write_record, returning Progressed when write_record
\* succeeds and write_record's error, with the record still removed, when it
\* fails.
C8_PollOnceOneRecord == [][C8_StepAmended]_vars

\* A Running poll_once has taken one of two queued records and written its frame.
C8_Witness ==
    /\ started
    /\ variant = "sync"
    /\ last.op = "poll_once"
    /\ last.res = "Progressed"
    /\ Len(queue) = 1
    /\ Len(SelectSeq(Frames(sink), IsRecordFrame)) = 1

(* ---------------- C9 --------------------------------------------------- *)
C9_Step ==
    (last'.rec.some /\ last'.op \in {"poll_once", "write_record"}
     /\ SlotOverflow(last'.rec.v)) =>
        /\ last'.res = IF last'.op = "poll_once" THEN "Progressed" ELSE "Ok"
        /\ dropped_streams' = dropped_streams + 1
        /\ sink' = sink
        /\ subscribed' = subscribed
        /\ started' = started

\* C9: a Data record with valid instance and topic whose slot is not below
\* MAX_STREAMS is dropped silently: dropped_streams grows by one,
\* write_record succeeds (poll_once returns Progressed), nothing is written
\* and subscribed is unchanged; dropped_streams is the number of such
\* records handed to the exporter so far.
C9_SlotBudgetDrop == [](dropped_streams = slot_overflows) /\ [][C9_Step]_vars

\* poll_once has dropped a record over the stream budget after a Data record
\* of another slot was written.
C9_Witness ==
    /\ dropped_streams = 1
    /\ last.op = "poll_once"
    /\ last.res = "Progressed"
    /\ last.rec.some
    /\ SlotOverflow(last.rec.v)
    /\ \E slot \in DOMAIN subscribed : subscribed[slot] = 1
    /\ Len(SelectSeq(Frames(sink), IsData)) = 1

(* ---------------- C10 -------------------------------------------------- *)
C10_Step ==
    (last'.rec.some /\ last'.op = "write_record" /\ last'.rec.v.meta.kind = "Data") =>
        /\ last'.rec.v.meta.instance >= MAX_MULTI_IDS =>
              /\ last'.res = "InvalidMultiId"
              /\ sink' = sink
              /\ started' = started
              /\ subscribed' = subscribed
              /\ dropped_streams' = dropped_streams
        /\ last'.rec.v.meta.instance = MAX_MULTI_IDS - 1 =>
              /\ last'.res # "InvalidMultiId"
              /\ last'.rec.v.meta.topic_index < Len(registry) => last'.res = "Ok"

\* C10: write_record of a Data record with instance >= MAX_MULTI_IDS fails
\* with InvalidMultiId, writes nothing and leaves started, subscribed and
\* dropped_streams as they were; instance = MAX_MULTI_IDS - 1 is accepted.
C10_InvalidMultiId == [][C10_Step]_vars

\* write_record has refused a record of instance MAX_MULTI_IDS on a started
\* exporter that holds a subscription.
C10_Witness ==
    /\ last.op = "write_record"
    /\ last.res = "InvalidMultiId"
    /\ last.rec.v.meta.instance = MAX_MULTI_IDS
    /\ started
    /\ \E slot \in DOMAIN subscribed : subscribed[slot] = 1

(* ---------------- C11 -------------------------------------------------- *)
C11_Step ==
    (last'.rec.some /\ last'.op = "write_record" /\ last'.rec.v.meta.kind = "Data"
     /\ last'.rec.v.meta.instance < MAX_MULTI_IDS
     /\ last'.rec.v.meta.topic_index >= Len(registry)) =>
        /\ last'.res = "InvalidTopicIndex"
        /\ sink' = sink
        /\ subscribed' = subscribed
        /\ dropped_streams' = dropped_streams
        /\ started' = started

\* C11: write_record of a Data record with a valid instance and
\* topic_index >= registry.len() fails with InvalidTopicIndex, writes nothing
\* and leaves subscribed and dropped_streams as they were.
C11_InvalidTopicIndex == [][C11_Step]_vars

\* write_record has refused a record of topic registry.len() on a started
\* exporter over a registry of two entries that holds a subscription.
C11_Witness ==
    /\ last.op = "write_record"
    /\ last.res = "InvalidTopicIndex"
    /\ last.rec.v.meta.topic_index = 2
    /\ Len(registry) = 2
    /\ started
    /\ \E slot \in DOMAIN subscribed : subscribed[slot] = 1

(* ---------------- C12 -------------------------------------------------- *)
\* A data_instance step of producer p on a bound topic with room in the queue
C12_Call(p) ==
    /\ ProducerStep(p)
    /\ last'.op = "data_instance"

C12_Ready(p) ==
    /\ C12_Call(p)
    /\ last'.arg.instance = MAX_MULTI_IDS - 1
    /\ UserTypes[last'.arg.t].TOPIC < Len(registry)
    /\ ~closed
    /\ Len(queue) < capacity

C12_Rejected(p) ==
    (C12_Call(p) /\ last'.arg.instance >= MAX_MULTI_IDS) =>
        /\ last'.res = "Dropped"
        /\ dropped_total'[p] = dropped_total[p] + 1
        /\ queue' = queue

C12_Accepted(p) ==
    /\ last'.res = "Emitted"
    /\ dropped_total'[p] = dropped_total[p]
    /\ Len(queue') = Len(queue) + 1
    /\ queue'[Len(queue')].meta.kind = "Data"
    /\ queue'[Len(queue')].meta.instance = MAX_MULTI_IDS - 1
    /\ queue'[Len(queue')].meta.topic_index = UserTypes[last'.arg.t].TOPIC

\* Does the value of user type t encode into a buffer of RECORD_CAP bytes?
C12_Encodes(t) ==
    LET enc == encode([ty |-> t, timestamp |-> 0, k |-> 0], Zeros(RECORD_CAP))
    IN  enc.err = "None" /\ enc.len <= RECORD_CAP

\* C12 as written: data_instance with instance >= MAX_MULTI_IDS returns
\* Dropped, counts one drop and enqueues nothing; with instance =
\* MAX_MULTI_IDS - 1, a bound topic and room in the queue it returns Emitted
\* and dropped_count() is unchanged.
C12_AsWritten ==
    [][\A p \in Producers : C12_Rejected(p) /\ (C12_Ready(p) => C12_Accepted(p))]_vars

\* C12 (amended): data_instance with instance >= MAX_MULTI_IDS returns
\* Dropped, counts one drop and enqueues nothing; with instance =
\* MAX_MULTI_IDS - 1, a bound topic, room in the queue and a value that
\* encodes within RECORD_CAP bytes it returns Emitted, enqueues the record
\* of that instance and leaves dropped_count() unchanged.
C12_InstanceBound ==
    [][\A p \in Producers :
          /\ C12_Rejected(p)
          /\ (C12_Ready(p) /\ C12_Encodes(last'.arg.t)) => C12_Accepted(p)]_vars

\* A producer had instance MAX_MULTI_IDS - 1 accepted and then instance
\* MAX_MULTI_IDS dropped, with room left in the queue.
C12_Witness ==
    \E p \in Producers :
        /\ last.op = "data_instance"
        /\ last.who = p
        /\ last.arg.instance = MAX_MULTI_IDS
        /\ last.res = "Dropped"
        /\ dropped_total[p] = 1
        /\ Len(queue) = 1
        /\ capacity = 2
        /\ ~closed
        /\ queue[1].meta.kind = "Data"
        /\ queue[1].meta.instance = MAX_MULTI_IDS - 1

(* ---------------- C13 -------------------------------------------------- *)
RECURSIVE SumOver(_, _)
SumOver(f, S) ==
    IF S = {} THEN 0
    ELSE LET x == CHOOSE y \in S : TRUE IN f[x] + SumOver(f, S \ {x})

\* The records handed to producer operations, and those accounted for by
\* the wire and the two counters
C13_Calls == SumOver(calls, Producers)

C13_Accounted ==
    Len(WireIds(sink)) + SumOver(dropped_total, Producers) + dropped_streams

\* C13 as written: once the exporter has drained the queue, the number of
\* producer calls equals the number of records with frames on the wire plus
\* dropped_count() summed over the producers plus dropped_streams().
C13_AsWritten == (started /\ queue = <<>>) => C13_Calls = C13_Accounted

\* C13: every record handed to a producer operation is on the wire, counted
\* by dropped_count() of its producer, counted by dropped_streams(), still
\* in the queue, or was handed to a write_record that returned an error; so
\* after a drain in which no write_record failed, the number of calls equals
\* wire records + dropped_count() over the producers + dropped_streams().
C13_DropAccounting ==
    /\ C13_Calls = C13_Accounted + Len(queue) + write_errors
    /\ (queue = <<>> /\ write_errors = 0) => C13_Calls = C13_Accounted

\* Drained with every kind of outcome: of three calls one record is on the
\* wire, one was refused by the full queue and one fell to the slot budget.
C13_Witness ==
    /\ started
    /\ queue = <<>>
    /\ write_errors = 0
    /\ C13_Calls = 3
    /\ Len(WireIds(sink)) = 1
    /\ SumOver(dropped_total, Producers) = 1
    /\ dropped_streams = 1

(* ---------------- C14 -------------------------------------------------- *)
\* What a producer call left behind, against the outcome out of an operator
C14_Same(p, out) ==
    /\ last'.res = out.status
    /\ queue' = out.queue
    /\ dropped_total'[p] = out.dropped_total

C14_Step ==
    \A p \in Producers :
        /\ (last'.op = "data" /\ last'.who = p) =>
               LET out == data_instance(Ch, dropped_total[p], Value(p, last'.arg.t), 0)
               IN  /\ C14_Same(p, out)
                   /\ IF out.status = "Emitted"
                      THEN /\ Len(queue') = Len(queue) + 1
                           /\ queue'[Len(queue')].meta.kind = "Data"
                           /\ queue'[Len(queue')].meta.instance = 0
                           /\ dropped_total'[p] = dropped_total[p]
                      ELSE /\ queue' = queue
                           /\ dropped_total'[p] = fetch_add(dropped_total[p])
        /\ (last'.op = "data_instance" /\ last'.who = p /\ last'.arg.instance = 0) =>
               C14_Same(p, data(Ch, dropped_total[p], Value(p, last'.arg.t)))

\* C14: data(value) and data_instance(value, 0), from the same producer and
\* queue state, return the same EmitStatus, enqueue the same record
\* (instance 0) or none, and change dropped_count() identically.
C14_DataIsInstanceZero == [][C14_Step]_vars

\* data() had a record accepted after data() of the same producer was
\* dropped: the record in the queue is of instance 0.
C14_Witness ==
    \E p \in Producers :
        /\ last.op = "data"
        /\ last.who = p
        /\ last.res = "Emitted"
        /\ dropped_total[p] = 1
        /\ calls[p] = 2
        /\ Len(queue) = 1
        /\ queue[1].meta.kind = "Data"
        /\ queue[1].meta.instance = 0

(* ---------------- C15 -------------------------------------------------- *)
\* The least payload length of each message type: 'B' 40, 'F' the ':',
\* 'A' multi_id and msg_id, 'D' msg_id, 'L' level and timestamp, 'C' level,
\* tag and timestamp, 'P' type-and-key-length byte and the value.
C15_MinPayload ==
    (66 :> 40) @@ (70 :> 1) @@ (65 :> 3) @@ (68 :> 2) @@ (76 :> 9) @@ (67 :> 11) @@ (80 :> 5)

\* An item read back from the sink that is a file header or a whole frame
\* of a message type the exporter writes
C15_Whole(f) ==
    \/ f.type = 0
    \/ /\ f.type \in DOMAIN C15_MinPayload
       /\ Len(f.payload) >= C15_MinPayload[f.type]
       /\ f.type = 66 => Len(f.payload) = 40
       /\ f.type = 80 => Len(f.payload) = 1 + f.payload[1] + 4

\* The start of a frame that a failed write cut short: the whole 3-byte
\* header and fewer payload bytes than the header announces
C15_CutShort(f) ==
    /\ f.type = -1
    /\ Len(f.payload) >= 3
    /\ f.payload[3] \in DOMAIN C15_MinPayload
    /\ Len(f.payload) < 3 + f.payload[1] + 256 * f.payload[2]
    /\ f.payload[1] + 256 * f.payload[2] >= C15_MinPayload[f.payload[3]]

\* C15: every frame completed on the wire is a 3-byte header (payload size
\* as little-endian u16, then the message type) followed by exactly size
\* payload bytes, and the header is written before any payload byte: the
\* sink reads back as whole frames, except that after a failed write the
\* last item may be a frame cut short after its header; the stream of a
\* run without a failed write is a sequence of whole frames.
C15_FrameStructure ==
    LET F == Frames(sink)
    IN  /\ \A i \in DOMAIN F :
               \/ C15_Whole(F[i])
               \/ i = Len(F) /\ fuel = 0 /\ C15_CutShort(F[i])
        /\ fuel # 0 => \A i \in DOMAIN F : C15_Whole(F[i])

\* After the startup frames a log frame was completed and the next frame,
\* an AddSubscription frame, was cut short after its header.
C15_Witness ==
    LET F == Frames(sink)
    IN  /\ Len(F) >= 6
        /\ F[1].type = 0
        /\ F[Len(F) - 1].type = 76
        /\ C15_CutShort(F[Len(F)])
        /\ F[Len(F)].payload[3] = 65
        /\ last.res = "Write"

(* ---------------- C16 -------------------------------------------------- *)
C16_Step ==
    (last'.op \in {"write_message", "write_message_parts"}) =>
        LET len == last'.arg.len
        IN  /\ len > U16_MAX =>
                /\ last'.res = "MessageTooLarge"
                /\ sink' = sink
                /\ fuel' = fuel
            /\ len <= U16_MAX =>
                /\ last'.res \in {"Ok", "Write"}
                /\ last'.res = "Ok" =>
                       /\ Len(sink') = Len(sink) + 3 + len
                       /\ SubSeq(sink', Len(sink) + 1, Len(sink) + 3)
                            = <<len % 256, len \div 256, last'.arg.msg_type>>
                /\ (last'.res = "Write" /\ sink' # sink) =>
                       SubSeq(sink', Len(sink) + 1, Len(sink) + 3)
                         = <<len % 256, len \div 256, last'.arg.msg_type>>

\* C16: a frame whose payload is longer than 65535 bytes is rejected with
\* MessageTooLarge before any byte of it, header or payload, is written;
\* a payload of at most 65535 bytes is never rejected by the frame header.
C16_MessageTooLarge == [][C16_Step]_vars

\* After a frame of one payload byte, a frame of 65536 payload bytes was
\* rejected: the sink holds the first frame and nothing else.
C16_Witness ==
    /\ last.op = "write_message_parts"
    /\ last.res = "MessageTooLarge"
    /\ last.arg.len = U16_MAX + 1
    /\ sink = <<1, 0, 76, 0>>

(* ---------------- C17 -------------------------------------------------- *)
\* The first RECORD_CAP bytes of a message, the whole of a shorter one
C17_Clamped(msg) == IF Len(msg) > RECORD_CAP THEN SubSeq(msg, 1, RECORD_CAP) ELSE msg

\* The frame write_record makes of a record, on an empty sink that never fails
C17_Frame(record) == Frames(write_record(ExporterNew, Writer(<<>>, NoFault), record).w.bytes)

C17_Step ==
    (last'.op \in {"log", "log_tagged"}) =>
        LET msg == last'.arg
            lead == IF last'.op = "log" THEN 9 ELSE 11
        IN  /\ last'.res = "Dropped" <=> (closed \/ Len(queue) >= capacity)
            /\ last'.res = "Emitted" =>
                   LET record == queue'[Len(queue')]
                       F == C17_Frame(record)
                   IN  /\ queue' = Append(queue, record)
                       /\ record.meta.kind = "LoggedString"
                       /\ record.bytes = C17_Clamped(msg)
                       /\ Len(F) = 1
                       /\ F[1].type = (IF last'.op = "log" THEN 76 ELSE 67)
                       /\ Len(F[1].payload) = lead + Len(C17_Clamped(msg))
                       /\ SubSeq(F[1].payload, lead + 1, Len(F[1].payload)) = C17_Clamped(msg)

\* C17 (record size): every record in the queue holds at most RECORD_CAP bytes.
C17_RecordCap == \A i \in DOMAIN queue : Len(queue[i].bytes) <= RECORD_CAP

\* C17: log and log_tagged never drop for length: a message longer than
\* RECORD_CAP bytes is cut to exactly its first RECORD_CAP bytes in the
\* record and in the 'L' / 'C' payload, a message of at most RECORD_CAP
\* bytes is carried unchanged, and every record holds at most RECORD_CAP bytes.
C17_LogTruncation == []C17_RecordCap /\ [][C17_Step]_vars

\* A short log and then a long tagged log were accepted: the queue holds
\* the first whole and the second cut to RECORD_CAP bytes.
C17_Witness ==
    /\ last.op = "log_tagged"
    /\ last.arg = LongText
    /\ last.res = "Emitted"
    /\ Len(queue) = 2
    /\ queue[1].bytes = Hi
    /\ Len(queue[2].bytes) = RECORD_CAP
    /\ queue[2].bytes # LongText

(* ---------------- C18 -------------------------------------------------- *)
\* "int32_t <name>" / "float <name>"
C18_Key(op, name) ==
    (IF op = "parameter_i32" THEN <<105, 110, 116, 51, 50, 95, 116>>
                             ELSE <<102, 108, 111, 97, 116>>) \o <<32>> \o name

C18_Step ==
    \A p \in Producers :
        (last'.op \in {"parameter_i32", "parameter_f32"} /\ last'.who = p) =>
            LET key == C18_Key(last'.op, last'.arg)
            IN  IF Len(key) > 255 \/ Len(key) > record_cap \/ Len(queue) >= capacity
                THEN /\ last'.res = "Dropped"
                     /\ queue' = queue
                     /\ dropped_total'[p] = dropped_total[p] + 1
                ELSE /\ last'.res = "Emitted"
                     /\ queue' = Append(queue, queue'[Len(queue')])
                     /\ queue'[Len(queue')].meta.kind = "Parameter"
                     /\ queue'[Len(queue')].meta.value.ty
                          = (IF last'.op = "parameter_i32" THEN "I32" ELSE "F32")
                     /\ queue'[Len(queue')].bytes = key
                     /\ dropped_total'[p] = dropped_total[p]

\* C18: parameter_i32 and parameter_f32 build the key "int32_t <name>" or
\* "float <name>"; the call returns Dropped and counts one drop when the
\* key is longer than 255 bytes or longer than RECORD_CAP, and a key of
\* exactly 255 bytes (within RECORD_CAP, with room in the queue) is
\* accepted and enqueued.
C18_ParameterKey == [][C18_Step]_vars

\* With RECORD_CAP 256 a key of 256 bytes was dropped and then a key of
\* exactly 255 bytes was accepted.
C18_Witness ==
    \E p \in Producers :
        /\ record_cap = DEFAULT_RECORD_CAP
        /\ last.op = "parameter_i32"
        /\ last.who = p
        /\ last.res = "Emitted"
        /\ calls[p] = 2
        /\ dropped_total[p] = 1
        /\ Len(queue) = 1
        /\ Len(queue[1].bytes) = 255

(* ---------------- C19 -------------------------------------------------- *)
\* The outcome of encode on the zeroed scratch buffer of RECORD_CAP bytes
C19_Encoded(p, t) == encode(Value(p, t), [i \in 1..RECORD_CAP |-> 0])

C19_Refused(enc) == enc.err # "None" \/ enc.len > RECORD_CAP

C19_Step ==
    \A p \in Producers :
        (/\ last'.op = "data_instance"
         /\ last'.who = p
         /\ AllTypes[last'.arg.t].TOPIC < Len(registry)
         /\ last'.arg.instance < MAX_MULTI_IDS) =>
            LET t == last'.arg.t
                enc == C19_Encoded(p, t)
            IN  IF C19_Refused(enc) \/ closed \/ Len(queue) >= capacity
                THEN /\ last'.res = "Dropped"
                     /\ queue' = queue
                     /\ dropped_total'[p] = dropped_total[p] + 1
                ELSE LET record == queue'[Len(queue')]
                     IN  /\ last'.res = "Emitted"
                         /\ queue' = Append(queue, record)
                         /\ dropped_total'[p] = dropped_total[p]
                         /\ record.meta.kind = "Data"
                         /\ Len(record.bytes) = enc.len
                         /\ \A i \in 1..enc.len : record.bytes[i] = enc.buf[i]
                         /\ AllTypes[t].ENCODE = "silent" =>
                                \A i \in 1..enc.len : record.bytes[i] = 0

\* C19: data_instance encodes the value into a zeroed scratch buffer of
\* RECORD_CAP bytes; it returns Dropped with one drop counted and enqueues
\* nothing when encode returns an error or reports a length greater than
\* RECORD_CAP; otherwise the enqueued record's payload is exactly the first
\* encoded_len bytes of the scratch buffer.
C19_EncodeScratch == [][C19_Step]_vars

\* A producer was refused a value whose encode failed and one whose encode
\* reported more than RECORD_CAP bytes, and then had a value accepted whose
\* encode wrote fewer bytes than the buffer holds.
C19_Witness ==
    \E p \in Producers :
        /\ last.op = "data_instance"
        /\ last.who = p
        /\ last.res = "Emitted"
        /\ AllTypes[last.arg.t].ENCODE = "short"
        /\ calls[p] = 3
        /\ dropped_total[p] = 2
        /\ Len(queue) = 1
        /\ Len(queue[1].bytes) = 4
        /\ \E q \in Producers : q # p /\ calls[q] = 0

(* ---------------- C20 -------------------------------------------------- *)
\* C20: dropped_count() is monotonic: over any sequence of producer calls
\* its value never decreases, including when the 32-bit counter reaches
\* its maximum.
C20_Monotonic == [][\A p \in Producers : dropped_total'[p] >= dropped_total[p]]_vars

\* A call was dropped with the counter at its maximum: dropped_count() is 0.
C20_Witness ==
    \E p \in Producers :
        /\ last.who = p
        /\ last.res = "Dropped"
        /\ dropped_returns[p] >= 1
        /\ dropped_total[p] = 0

(* ---------------- C21 -------------------------------------------------- *)
\* The exporter operations that write to the sink
C21_Ops == {"emit_startup", "write_record", "poll_once"}

C21_Step ==
    (last'.op \in C21_Ops /\ fuel # NoFault) =>
        /\ last'.res = "Write" =>
               /\ sink_calls' = sink_calls + fuel + 1
               /\ fuel' = 0
               /\ Len(sink') >= Len(sink)
               /\ SubSeq(sink', 1, Len(sink)) = sink
               /\ fuel = 0 => sink' = sink
        /\ last'.res # "Write" =>
               /\ sink_calls' = sink_calls + (fuel - fuel')
               /\ fuel' <= fuel

\* C21: a sink write error is surfaced as Write from write_record,
\* emit_startup and poll_once at the first failing write: on a sink that
\* takes k more write_all calls the operation returns Write after exactly
\* k + 1 calls, the last one the failing call, and what it wrote before
\* stays on the sink; an operation that does not return Write made no
\* failing call.
C21_WriteErrorSurfaced == [][C21_Step]_vars

\* poll_once took a Data record, wrote the whole 'A' frame and the header
\* of the 'D' frame, and returned Write at the next call.
C21_Witness ==
    LET F == Frames(sink)
    IN  /\ last.op = "poll_once"
        /\ last.res = "Write"
        /\ last.rec.some
        /\ fuel = 0
        /\ Len(F) >= 2
        /\ F[Len(F) - 1].type = 65
        /\ F[Len(F)].type = -1
        /\ Len(F[Len(F)].payload) = 3

(* ---------------- C22 -------------------------------------------------- *)
\* The step is the completion of recv: it hands over the head of the queue
C22_Completion ==
    /\ pc = "recv"
    /\ pc' = "idle"
    /\ queue # <<>>
    /\ last'.op = "poll_once"
    /\ last'.rec = Some(Head(queue))
    /\ queue' = Tail(queue)

C22_Step ==
    /\ (started /\ (sink' # sink \/ Len(queue') < Len(queue))) => C22_Completion
    /\ (pc = "idle" /\ pc' = "recv") => (sink' = sink /\ queue' = queue)
    /\ last'.op = "cancel" =>
           /\ pc = "recv"
           /\ pc' = "idle"
           /\ queue' = queue
           /\ sink' = sink
           /\ subscribed' = subscribed
           /\ dropped_streams' = dropped_streams

\* C22: in the cooperative exporter poll_once writes no byte of a record's
\* frames before recv has completed and handed over that record; when the
\* task is cancelled while it waits in recv no record leaves the queue and
\* nothing is written to the sink.
C22_RecvBeforeWrite == [][C22_Step]_vars

\* The wait in recv was cancelled with a record in the queue: the record is
\* still there and the sink holds the startup frames only.
C22_Witness ==
    /\ last.op = "cancel"
    /\ started
    /\ Len(queue) = 1
    /\ sink # <<>>
    /\ SelectSeq(Frames(sink), IsRecordFrame) = <<>>
    /\ SelectSeq(Frames(sink), IsSub) = <<>>

(* ---------------- C23 -------------------------------------------------- *)
C23_Duplicate(entries) ==
    \E i, j \in 1..Len(entries) : i # j /\ entries[i].name = entries[j].name

\* C23: Registry::new fails exactly when two entries at different indices
\* have byte-equal names; otherwise the registry holds the entries in the
\* order given, and the empty registry is accepted.
C23_RegistryNew ==
    last.op = "Registry::new" =>
        /\ last.res = "panic" <=> C23_Duplicate(last.arg)
        /\ last.res # "panic" => last.rec = Some(last.arg)
        /\ last.arg = <<>> => last.res = "Ok"

\* Three entries were refused for the equal names of the first and the
\* third, which differ in format and size.
C23_Witness ==
    /\ last.op = "Registry::new"
    /\ last.res = "panic"
    /\ Len(last.arg) = 3
    /\ last.arg[1].name = last.arg[3].name
    /\ last.arg[1] # last.arg[3]
    /\ last.arg[2].name # last.arg[1].name

(* ---------------- C24 -------------------------------------------------- *)
\* The entry of the registry at a bound index describes the type
C24_EntryOf(reg, index, type) ==
    /\ index < Len(reg)
    /\ reg[index + 1].name = type.NAME
    /\ reg[index + 1].format = type.FORMAT
    /\ reg[index + 1].wire_size = type.WIRE_SIZE

\* C24: for a registry declared over the types T0..Tn-1 the topic index
\* bound to Ti is i: every bound index is below registry.len() and the entry
\* at that index carries the name, format and wire size of Ti.
C24_TopicIndex ==
    (last.op = "register_messages" /\ last.res = "Ok") =>
        /\ Len(last.rec.v.REGISTRY) = Len(last.arg)
        /\ Len(last.rec.v.INDEX) = Len(last.arg)
        /\ \A i \in 1..Len(last.arg) :
               /\ last.rec.v.INDEX[i] = i - 1
               /\ C24_EntryOf(last.rec.v.REGISTRY, last.rec.v.INDEX[i], AllTypes[last.arg[i]])

\* A registry was declared over three types in an order that is not the
\* order of their definition.
C24_Witness ==
    /\ last.op = "register_messages"
    /\ last.res = "Ok"
    /\ last.arg = <<3, 1, 2>>
    /\ last.rec.v.INDEX = <<0, 1, 2>>
    /\ last.rec.v.REGISTRY[1].name = UserTypes[3].NAME

(* ---------------- C25 -------------------------------------------------- *)
\* A frame as it lies on the wire: payload size, little-endian u16, the
\* message type, the payload
C25_Frame(type, payload) == <<Len(payload) % 256, Len(payload) \div 256, type>> \o payload

C25_MsgId(record) == record.meta.topic_index * MAX_MULTI_IDS + record.meta.instance

C25_Add(record) ==
    C25_Frame(65, <<record.meta.instance, C25_MsgId(record) % 256, C25_MsgId(record) \div 256>>
                  \o registry[record.meta.topic_index + 1].name)

C25_Data(record) ==
    C25_Frame(68, <<C25_MsgId(record) % 256, C25_MsgId(record) \div 256>> \o record.bytes)

C25_Step ==
    (/\ last'.op \in {"write_record", "poll_once"}
     /\ last'.rec.some
     /\ ValidData(last'.rec.v)
     /\ ~SlotOverflow(last'.rec.v)
     /\ fuel = NoFault) =>
        sink' = sink \o (IF subscribed[C25_MsgId(last'.rec.v)] = 0
                         THEN C25_Add(last'.rec.v) ELSE <<>>)
                     \o C25_Data(last'.rec.v)

\* C25: for a valid Data record msg_id is topic_index * MAX_MULTI_IDS +
\* instance; the 'A' payload is the instance as one byte, msg_id as a
\* little-endian u16 and the registry name of the topic; the 'D' payload is
\* msg_id as a little-endian u16 and then the record's payload unchanged; the
\* two frames carry the same msg_id.
C25_DataWire == [][C25_Step]_vars

\* The first record of topic 1, instance 0 was written: its 'A' and 'D'
\* frames, both with msg_id 2, end the wire.
C25_Witness ==
    /\ Handled
    /\ ValidData(last.rec.v)
    /\ last.rec.v.meta.topic_index = 1
    /\ Len(Frames(sink)) >= 2
    /\ LET F == Frames(sink)
       IN  /\ IsSub(F[Len(F) - 1])
           /\ IsData(F[Len(F)])
           /\ SubMsgId(F[Len(F) - 1]) = MAX_MULTI_IDS
           /\ DataMsgId(F[Len(F)]) = MAX_MULTI_IDS

(* ---------------- C26 -------------------------------------------------- *)
\* A timestamp below 2^31 as a little-endian u64
C26_Ts(ts) ==
    <<ts % 256, (ts \div 256) % 256, (ts \div 65536) % 256, ts \div 16777216, 0, 0, 0, 0>>

C26_LogFrame(record) ==
    <<(9 + Len(record.bytes)) % 256, (9 + Len(record.bytes)) \div 256, 76, record.meta.level>>
        \o C26_Ts(record.meta.ts) \o record.bytes

C26_TaggedFrame(record) ==
    <<(11 + Len(record.bytes)) % 256, (11 + Len(record.bytes)) \div 256, 67, record.meta.level,
      record.meta.tag.v % 256, record.meta.tag.v \div 256>>
        \o C26_Ts(record.meta.ts) \o record.bytes

C26_Step ==
    (/\ last'.op = "write_record"
     /\ last'.rec.v.meta.kind = "LoggedString") =>
        /\ last'.res = "Ok"
        /\ last'.rec.v.meta.level \in 48..55
        /\ sink' = sink \o (IF last'.rec.v.meta.tag.some
                            THEN C26_TaggedFrame(last'.rec.v)
                            ELSE C26_LogFrame(last'.rec.v))

\* C26: a LoggedString record without a tag is written as exactly one 'L'
\* frame: the level byte, the timestamp as a little-endian u64, the text,
\* with size 9 + text length; with a tag it is written as exactly one 'C'
\* frame: the level byte, the tag as a little-endian u16, the timestamp, the
\* text, with size 11 + text length; the level byte is an ASCII digit '0'
\* to '7'.
C26_LogWire == [][C26_Step]_vars

\* An Emerg log "hi" with a tag was written after a Debug log without one.
C26_Witness ==
    /\ last.op = "write_record"
    /\ last.rec.v.meta.kind = "LoggedString"
    /\ last.rec.v.meta.tag.some
    /\ last.rec.v.meta.level = 48
    /\ sink = <<9, 0, 76, 55, 2, 1, 0, 0, 0, 0, 0, 0,
                13, 0, 67, 48, 1, 2, 2, 1, 0, 0, 0, 0, 0, 0, 104, 105>>

(* ---------------- C27 -------------------------------------------------- *)
C27_Step ==
    /\ last'.op = "try_recv" =>
           IF queue = <<>>
           THEN last'.rec = None /\ queue' = queue
           ELSE last'.rec = Some(Head(queue)) /\ queue' = Tail(queue)
    /\ last'.who \in Producers =>
           IF last'.res = "Emitted"
           THEN /\ queue' # <<>>
                /\ SubSeq(queue', 1, Len(queue') - 1) = queue
                /\ RecordId(queue'[Len(queue')]) = CallId(last'.who)
           ELSE queue' = queue
    /\ last'.op = "drop" => queue' = queue

\* C27: the queue is lossless and first-in first-out: a record accepted by
\* try_send is returned unchanged by a later try_recv, the records sent
\* through several senders bound to one queue are all received, and try_recv
\* returns None once every accepted record has been received.
C27_QueueFifo == [][C27_Step]_vars

\* Both producers sent a record; try_recv returned the record of the one
\* that sent first and the other's record is the next in the queue.
C27_Witness ==
    /\ last.op = "try_recv"
    /\ last.rec.some
    /\ Len(queue) = 1
    /\ \E p, q \in Producers :
           /\ p # q
           /\ RecordId(last.rec.v) = p * 16 + 1
           /\ RecordId(queue[1]) = q * 16 + 1

(* ---------------- C28 -------------------------------------------------- *)
C28_Step ==
    last'.op = "try_send" =>
        IF closed THEN last'.res = "Closed" /\ queue' = queue
        ELSE IF Len(queue) >= capacity THEN last'.res = "Full" /\ queue' = queue
        ELSE /\ last'.res = "Ok"
             /\ Len(queue') = Len(queue) + 1
             /\ SubSeq(queue', 1, Len(queue)) = queue
             /\ queue'[Len(queue')] \in SentRecords

\* C28: try_send accepts records until the queue holds its bound of
\* undelivered records and then returns Full without enqueuing; the std
\* channel returns Closed once the receiving half has been dropped.
C28_FullAndClosed == [][C28_Step]_vars

\* A queue filled to its bound of more than one record was closed, and the
\* next try_send returned Closed.
C28_Witness ==
    /\ last.op = "try_send"
    /\ last.res = "Closed"
    /\ closed
    /\ capacity > 1
    /\ Len(queue) = capacity

(* ---------------- C29 -------------------------------------------------- *)
\* C29: every type accepted by the ULogData derivation begins with the field
\* timestamp of type u64: its FORMAT starts with "uint64_t timestamp;" and
\* the first 8 bytes of its encode output are the little-endian timestamp; a
\* struct whose timestamp field is not the first field is rejected.
C29_TimestampFirst ==
    (last.op = "derive" /\ last.res = "Ok") =>
        /\ last.arg.fields[1] = [name |-> IdentTimestamp, ty |-> "u64"]
        /\ Len(last.rec.v.FORMAT) >= Len(FmtTimestamp)
        /\ SubSeq(last.rec.v.FORMAT, 1, Len(FmtTimestamp)) = FmtTimestamp
        /\ SubSeq(last.rec.v.encoded, 1, 8)
               = <<last.arg.timestamp % 256, last.arg.timestamp \div 256, 0, 0, 0, 0, 0, 0>>

\* The derivation accepted struct { k: u8, timestamp: u64 }: FORMAT is
\* "uint8_t k;uint64_t timestamp;" and the encoding starts with the byte of k.
C29_Witness ==
    /\ last.op = "derive"
    /\ last.res = "Ok"
    /\ last.arg.fields = <<[name |-> <<107>>, ty |-> "u8"], [name |-> IdentTimestamp, ty |-> "u64"]>>
    /\ last.rec.v.FORMAT = FmtK \o FmtTimestamp
    /\ last.rec.v.encoded = <<255, 2, 1, 0, 0, 0, 0, 0, 0>>

(* ---------------- C30 -------------------------------------------------- *)
C30_BothInvalid(record) ==
    /\ record.meta.kind = "Data"
    /\ record.meta.instance >= MAX_MULTI_IDS
    /\ record.meta.topic_index >= Len(registry)

C30_Step ==
    (/\ last'.op \in {"write_record", "poll_once"}
     /\ last'.rec.some
     /\ C30_BothInvalid(last'.rec.v)) =>
        /\ last'.res = "InvalidMultiId"
        /\ sink' = sink

\* C30: the exporter validates the instance before it looks up the topic: a
\* Data record with both instance >= MAX_MULTI_IDS and topic_index >=
\* registry.len() fails with InvalidMultiId, not InvalidTopicIndex.
C30_InstanceBeforeTopic == [][C30_Step]_vars

\* A Data record of topic 2 and instance MAX_MULTI_IDS was written with a
\* registry of two entries and refused with InvalidTopicIndex.
C30_Witness ==
    /\ last.op = "write_record"
    /\ last.rec.some
    /\ C30_BothInvalid(last.rec.v)
    /\ Len(registry) = 2
    /\ last.rec.v.meta.topic_index = 2
    /\ last.rec.v.meta.instance = MAX_MULTI_IDS
    /\ last.res = "InvalidTopicIndex"

(* ---------------- C31 -------------------------------------------------- *)
\* The bytes a step appended to the sink
C31_Written == SubSeq(sink', Len(sink) + 1, Len(sink'))

C31_Step ==
    /\ (last'.op = "emit_startup" /\ ~started) =>
           /\ Len(sink') >= Len(sink)
           /\ SubSeq(sink', 1, Len(sink)) = sink
           /\ C31_Written # <<>> =>
                  /\ Len(C31_Written) >= 16
                  /\ SubSeq(C31_Written, 1, 16)
                         = <<85, 76, 111, 103, 1, 18, 53, 1, 0, 0, 0, 0, 0, 0, 0, 0>>
           /\ started' = (last'.res = "Ok")
           /\ last'.res # "Ok" =>
                  /\ last'.res \in {"Write", "MessageTooLarge"}
                  /\ subscribed' = subscribed
                  /\ dropped_streams' = dropped_streams
                  /\ queue' = queue
    /\ (last'.op = "poll_once" /\ ~started) =>
           /\ last'.res = "Idle"
           /\ last'.rec = None
           /\ queue' = queue
           /\ sink' = sink
           /\ started' = started

\* C31: when emit_startup fails, on a sink write error or on MessageTooLarge
\* in the header, flag-bits or format frames, the exporter stays
\* Uninitialized: started remains false, poll_once keeps returning Idle
\* without touching the queue, and a later emit_startup starts again from
\* the file header instead of resuming after the frames already written.
C31_FailedStartup == [][C31_Step]_vars

\* emit_startup failed after the header and the flag bits, the sink
\* recovered, and a second emit_startup succeeded: the stream holds two file
\* headers and two flag-bits frames before the format frames.
C31_Witness ==
    /\ last.op = "emit_startup"
    /\ last.res = "Ok"
    /\ started
    /\ LET F == Frames(sink)
       IN  /\ Len(F) = 6
           /\ F[1].type = 0 /\ F[2].type = 66
           /\ F[3].type = 0 /\ F[4].type = 66
           /\ F[5].type = 70 /\ F[6].type = 70

(* ---------------- C32 -------------------------------------------------- *)
C32_IsPrefix(a, b) == Len(a) <= Len(b) /\ SubSeq(b, 1, Len(a)) = a

C32_Step ==
    (/\ last'.op \in {"write_record", "poll_once"}
     /\ last'.rec.some
     /\ ValidData(last'.rec.v)
     /\ ~SlotOverflow(last'.rec.v)) =>
        LET r == last'.rec.v
            slot == C25_MsgId(r)
            written == SubSeq(sink', Len(sink) + 1, Len(sink'))
        IN  /\ SubSeq(sink', 1, Len(sink)) = sink
            /\ \A s \in DOMAIN subscribed : s # slot => subscribed'[s] = subscribed[s]
            /\ IF subscribed[slot] = 0
               THEN /\ subscribed'[slot] = 1 <=> C32_IsPrefix(C25_Add(r), written)
                    /\ \/ C32_IsPrefix(written, C25_Add(r))
                       \/ /\ C32_IsPrefix(C25_Add(r), written)
                          /\ C32_IsPrefix(written, C25_Add(r) \o C25_Data(r))
               ELSE /\ subscribed'[slot] = 1
                    /\ C32_IsPrefix(written, C25_Data(r))
            /\ last'.res = "Ok" =>
                   written = (IF subscribed[slot] = 0 THEN C25_Add(r) ELSE <<>>) \o C25_Data(r)

\* C32: a slot is marked subscribed only after its AddSubscription frame has
\* been written completely: when the write of the 'A' frame fails the slot
\* stays unsubscribed and the next Data record of the slot writes an 'A'
\* frame again; when the 'A' frame succeeds and the write of the 'D' frame
\* fails the slot stays subscribed and the next Data record of the slot
\* writes no 'A' frame.
C32_SubscribedAfterA == [][C32_Step]_vars

\* The 'A' frame of slot 0 was written, its 'D' frame was cut short, the
\* sink recovered and the next record of the slot was written as a 'D'
\* frame alone.
C32_Witness ==
    LET r == new_data(0, 0, 0, <<1, 2, 3, 4>>).v
    IN  /\ last.op = "write_record"
        /\ last.res = "Ok"
        /\ write_errors = 1
        /\ registry = TestMessages
        /\ subscribed[0] = 1
        /\ Len(sink) > Len(C25_Add(r)) + Len(C25_Data(r))
        /\ Len(sink) < 2 * Len(C25_Add(r)) + Len(C25_Data(r))
        /\ C32_IsPrefix(C25_Add(r), sink)
        /\ SubSeq(sink, Len(sink) - Len(C25_Data(r)) + 1, Len(sink)) = C25_Data(r)

(* ---------------- C33 -------------------------------------------------- *)
C33_Errors == {"InvalidMultiId", "InvalidTopicIndex", "TooManyStreams", "MessageTooLarge", "Write"}

C33_Step ==
    /\ last'.op # "try_send" => (queue' = queue \/ (queue # <<>> /\ queue' = Tail(queue)))
    /\ last'.op = "poll_once" =>
           /\ last'.res \in {"Idle", "Progressed"} \cup C33_Errors
           /\ last'.res \in C33_Errors =>
                  /\ queue # <<>>
                  /\ last'.rec = Some(Head(queue))
                  /\ queue' = Tail(queue)
                  /\ dropped_streams' = dropped_streams
                  /\ dropped_total' = dropped_total

\* C33: a record that poll_once has dequeued is never put back: when
\* write_record fails poll_once returns the error, the record is gone from
\* the queue, and no drop counter is incremented for it.
C33_DequeuedIsGone == [][C33_Step]_vars

\* poll_once took the only record of the queue and returned the write error
\* of its 'D' frame: the queue is empty and the counters are zero.
C33_Witness ==
    /\ last.op = "poll_once"
    /\ last.res = "Write"
    /\ last.rec.some
    /\ queue = <<>>
    /\ subscribed[0] = 1
    /\ dropped_streams = 0
    /\ \A p \in Producers : dropped_total[p] = 0

(* ---------------- C34 -------------------------------------------------- *)
\* The (topic_index, instance) pairs that pass the exporter's validation
C34_Pairs == (0..(Len(registry) - 1)) \X (0..(MAX_MULTI_IDS - 1))

\* The pair an 'A' frame names: the topic of the registry that has the
\* frame's name, and the frame's instance byte
C34_PairOf(f) ==
    <<CHOOSE t \in 0..Len(registry) :
          t = Len(registry) \/ registry[t + 1].name = SubSeq(f.payload, 4, Len(f.payload)),
      f.payload[1]>>

\* C34: the msg_id assignment is injective: two Data records that pass
\* validation with different (topic_index, instance) pairs never get the
\* same slot or msg_id, records with the same pair always get the same
\* msg_id, and so the msg_id of an 'A' frame identifies exactly one (topic,
\* instance) for the whole stream.
C34_MsgIdInjective ==
    LET F == Frames(sink)
    IN  /\ \A a, b \in C34_Pairs :
               /\ stream_slot(a[1], a[2]).some
               /\ stream_slot(a[1], a[2]) = stream_slot(b[1], b[2]) => a = b
        /\ \A i \in DOMAIN F :
               IsSub(F[i]) =>
                   /\ C34_PairOf(F[i]) \in C34_Pairs
                   /\ stream_slot(C34_PairOf(F[i])[1], C34_PairOf(F[i])[2]) = Some(SubMsgId(F[i]))
        /\ \A i, j \in DOMAIN F :
               (IsSub(F[i]) /\ IsSub(F[j])) =>
                   (SubMsgId(F[i]) = SubMsgId(F[j]) <=> C34_PairOf(F[i]) = C34_PairOf(F[j]))
        /\ \A j \in DOMAIN F :
               IsData(F[j]) => \E i \in 1..(j - 1) :
                                   IsSub(F[i]) /\ SubMsgId(F[i]) = DataMsgId(F[j])
        /\ (Handled /\ ValidData(last.rec.v) /\ ~SlotOverflow(last.rec.v) /\ last.res = "Ok") =>
               \E i \in DOMAIN F :
                   /\ IsSub(F[i])
                   /\ C34_PairOf(F[i]) = <<last.rec.v.meta.topic_index, last.rec.v.meta.instance>>
                   /\ SubMsgId(F[i]) = DataMsgId(F[Len(F)])

\* The stream holds the 'A' frames of three different pairs, (0, 0), (0, 1)
\* and (1, 0), with three different msg_ids.
C34_Witness ==
    LET F == Frames(sink)
        A == SelectSeq(F, IsSub)
    IN  /\ Len(A) = 3
        /\ {C34_PairOf(A[i]) : i \in 1..3} = {<<0, 0>>, <<0, 1>>, <<1, 0>>}
        /\ {SubMsgId(A[i]) : i \in 1..3} = {0, 1, 2}

\* Exporters of every configuration up to MaxCfgIds instances per topic and
\* MaxCfgStreams slots, 0 included, given Data records of any topic index
\* and instance.
InitExporterOf(ids, streams, drops, n) ==
    /\ registry = TestMessages
    /\ record_cap = RECORD_CAP
    /\ max_multi_ids = ids
    /\ capacity = 1
    /\ closed = FALSE
    /\ queue = <<>>
    /\ dropped_total = [p \in Producers |-> 0]
    /\ calls = [p \in Producers |-> 0]
    /\ dropped_returns = [p \in Producers |-> 0]
    /\ variant = "sync"
    /\ pc = "idle"
    /\ started = FALSE
    /\ subscribed = [slot \in 0..(streams - 1) |-> 0]
    /\ dropped_streams = drops
    /\ sink = <<>>
    /\ slot_overflows = 0
    /\ fuel = NoFault
    /\ write_errors = 0
    /\ sink_calls = 0
    /\ last = [op |-> "new", who |-> 0, res |-> "None", rec |-> None, arg |-> <<>>]
    /\ nops = 0
    /\ budget = n

InitIndex ==
    \E ids \in 0..MaxCfgIds, streams \in 0..MaxCfgStreams :
        InitExporterOf(ids, streams, 0, MaxIndexOps)

NextIndex ==
    \E t \in {0, 1, 2, U16_MAX}, i \in {0, 1, 2, 3, 255} :
        WriteRecordIn(new_data(t, i, 0, <<1, 2, 3, 4>>).v)

SpecIndex == InitIndex /\ [][NextIndex]_vars

(* ---------------- C35 -------------------------------------------------- *)
\* C35: for every Data record, with any topic_index and instance and any
\* MAX_MULTI_IDS and MAX_STREAMS including 0, the exporter reads or writes
\* subscribed[slot] only when slot < MAX_STREAMS: write_record never
\* indexes the subscription table out of bounds (it never panics).
C35_IndexInBounds ==
    last.op = "write_record" =>
        /\ last.res # "panic"
        /\ \A k \in DOMAIN last.arg :
               /\ last.arg[k] \in DOMAIN subscribed
               /\ last.arg[k] < Cardinality(DOMAIN subscribed)
        /\ (last.res = "Ok" /\ last.arg = <<>>) => dropped_streams > 0
        /\ (max_multi_ids = 0 \/ DOMAIN subscribed = {}) => last.arg = <<>>

\* An exporter of 3 instances per topic and 3 slots dropped the record of
\* topic 1 instance 0, whose slot 3 is the first one outside the table,
\* after it had indexed the table for a record of slot 2.
C35_Witness ==
    /\ last.op = "write_record"
    /\ last.res = "Ok"
    /\ max_multi_ids = 3
    /\ DOMAIN subscribed = 0..2
    /\ last.rec.v.meta.topic_index = 1
    /\ last.rec.v.meta.instance = 0
    /\ last.arg = <<>>
    /\ dropped_streams = 1
    /\ subscribed[2] = 1

\* An exporter with no slot at all dropped a valid record without indexing.
C35_WitnessNoStreams ==
    /\ last.op = "write_record"
    /\ last.res = "Ok"
    /\ DOMAIN subscribed = {}
    /\ max_multi_ids > 0
    /\ dropped_streams = 1

(* ---------------- C36 -------------------------------------------------- *)
\* No operation clears a slot of the table.
C36_Kept ==
    /\ DOMAIN subscribed' = DOMAIN subscribed
    /\ \A slot \in DOMAIN subscribed : subscribed[slot] = 1 => subscribed'[slot] = 1

\* The step handled a Data record that passed validation within the budget
C36_DataStep ==
    /\ last'.op \in {"write_record", "poll_once"}
    /\ last'.rec.some
    /\ ValidData(last'.rec.v)
    /\ ~SlotOverflow(last'.rec.v)

\* The step appended the complete 'A' frame of its record to the sink
C36_AddWritten ==
    C32_IsPrefix(sink \o C25_Add(last'.rec.v), sink')

\* dropped_streams changes only on a slot-budget drop, which returns success
\* and touches neither the table nor the sink.
C36_Dropped ==
    dropped_streams' # dropped_streams =>
        /\ last'.op \in {"write_record", "poll_once"}
        /\ last'.rec.some
        /\ SlotOverflow(last'.rec.v)
        /\ last'.res \in {"Ok", "Progressed"}
        /\ dropped_streams' = saturating_add(dropped_streams, 1)
        /\ subscribed' = subscribed
        /\ sink' = sink

C36_Step ==
    /\ C36_Kept
    /\ C36_Dropped
    /\ subscribed' # subscribed =>
           /\ C36_DataStep
           /\ C36_AddWritten
           /\ subscribed' = [subscribed EXCEPT ![C25_MsgId(last'.rec.v)] = 1]
           /\ last'.res \in {"Ok", "Progressed", "Write"}
    /\ (C36_DataStep /\ ~C36_AddWritten) => subscribed' = subscribed

InitShared ==
    \E rc \in {RECORD_CAP, DEFAULT_RECORD_CAP} :
        InitRecordCap(TestMessages, 1, "sync", MaxSharedOps, NoFault, rc)

NextShared ==
    \/ \E p \in Producers, t \in 1..Len(UserTypes), i \in Instances :
           record_cap = RECORD_CAP /\ DataInstance(p, t, i)
    \/ \E p \in Producers, n \in {247, 248} : ParameterCap(p, "I32", Zeros(n))
    \/ EmitStartup(0)
    \/ PollOnce

SpecShared == InitShared /\ [][NextShared]_vars

(* ---------------- C37 -------------------------------------------------- *)
\* What the exporter checks of a record before it writes anything
C37_Accepted(record) ==
    /\ record.meta.kind = "Data" =>
           /\ record.meta.instance < MAX_MULTI_IDS
           /\ record.meta.topic_index < Len(registry)
    /\ record.meta.kind = "Parameter" =>
           /\ Len(record.bytes) <= U8_MAX
           /\ parameter_payload_len(record.bytes, <<0, 0, 0, 0>>).err = "None"

C37_Step ==
    /\ \A i \in DOMAIN queue' : C37_Accepted(queue'[i])
    /\ (last'.op \in {"data_instance", "parameter_i32"} /\ last'.res = "Emitted") =>
           /\ queue' = queue \o <<queue'[Len(queue')]>>
           /\ C37_Accepted(queue'[Len(queue')])
    /\ (last'.op = "poll_once" /\ last'.rec.some) =>
           /\ last'.rec.v = Head(queue)
           /\ last'.res \notin {"InvalidMultiId", "InvalidTopicIndex"}
           /\ last'.rec.v.meta.kind = "Parameter" => last'.res = "Progressed"

\* C37: producer validation is sufficient for the exporter: when producer
\* and exporter share the same registry, RECORD_CAP and MAX_MULTI_IDS, no
\* record that a producer call enqueued (Emitted) makes write_record fail
\* with InvalidMultiId or InvalidTopicIndex, and no enqueued Parameter
\* record fails for its key length.
C37_ValidationSufficient == [][C37_Step]_vars

\* A key of 256 bytes was dropped by the producer, a key of 255 bytes was
\* enqueued, and the exporter wrote its 'P' frame.
C37_Witness ==
    /\ last.op = "poll_once"
    /\ last.res = "Progressed"
    /\ last.rec.v.meta.kind = "Parameter"
    /\ Len(last.rec.v.bytes) = U8_MAX
    /\ \E p \in Producers : dropped_total[p] = 1
    /\ Len(sink) > 16 + U8_MAX

\* The Data record of the last valid instance was enqueued and the exporter
\* took it without an error.
C37_WitnessData ==
    /\ last.op = "poll_once"
    /\ last.res = "Progressed"
    /\ last.rec.v.meta.kind = "Data"
    /\ last.rec.v.meta.instance = MAX_MULTI_IDS - 1
    /\ last.rec.v.meta.topic_index = Len(registry) - 1

\* The cooperative exporter driven by run, fed by a sender written by hand
\* whose records carry the number of the send as their timestamp.
InitRun == InitWith(TestMessages, MaxQueueCap, "async", MaxRunOps)

NextRun ==
    \/ EmitStartup(0)
    \/ \E t \in {0, 1}, i \in {MAX_MULTI_IDS - 1, MAX_MULTI_IDS} :
           Send(new_data(t, i, nops + 1, <<1, 2, 3, 4>>).v)
    \/ Run
    \/ RunPollOnce
    \/ RunRecv

SpecRun == InitRun /\ [][NextRun]_vars

\* RunRecv can make a step exactly when run awaits recv and a record is in
\* the queue
RunRecvEnabled == variant = "async" /\ pc = "run_recv" /\ queue # <<>>

\* The executor keeps polling the future of run while it can make a step,
\* and recv completes once a record is in the queue: weak fairness of
\* RunPollOnce and of RunRecv, the latter written out with its enabling
\* condition.
SpecRunFair ==
    /\ SpecRun
    /\ WF_vars(RunPollOnce)
    /\ ([]<>~RunRecvEnabled \/ []<><<RunRecv>>_vars)

(* ---------------- C38 -------------------------------------------------- *)
C38_Running == pc \in {"run", "run_recv"}

C38_Step ==
    \* run returns only with the error of write_record
    /\ (pc # "done" /\ pc' = "done") =>
           /\ last'.op = "run"
           /\ last'.res \in C33_Errors
           /\ last'.rec = Some(Head(queue))
    /\ last'.op = "run" => last'.res # "Ok"
    /\ pc = "done" => pc' = "done"
    \* started, a record leaves the queue only into write_record, oldest first
    /\ (C38_Running /\ queue' # queue /\ last'.op # "try_send") =>
           /\ started
           /\ pc = "run_recv"
           /\ queue' = Tail(queue)
           /\ last'.rec = Some(Head(queue))
           /\ last'.res = Result(write_record(Exporter, Writer(sink, fuel), Head(queue)).w)
                  \/ last'.res = "Progressed"
           /\ sink' = write_record(Exporter, Writer(sink, fuel), Head(queue)).w.bytes
    \* not started, run goes round on Idle: no await, no record, no return
    /\ (C38_Running /\ ~started) =>
           /\ pc = "run"
           /\ pc' = "run"
           /\ ~started'
           /\ sink' = sink
           /\ queue' = queue \/ (last'.op = "try_send" /\ SubSeq(queue', 1, Len(queue)) = queue)
           /\ last'.op \in {"poll_once", "try_send"}
           /\ last'.op = "poll_once" => last'.res = "Idle"

\* C38: run of the cooperative exporter returns only with an error and
\* never with success; started after a successful emit_startup it writes
\* every record that arrives on the queue (until write_record fails, whose
\* error it returns); started while the exporter is still Uninitialized it
\* loops forever on Idle without ever receiving a record or suspending.
C38_Run ==
    /\ [][C38_Step]_vars
    /\ (C38_Running /\ started /\ queue # <<>>) ~> (queue = <<>> \/ pc = "done")
    /\ (C38_Running /\ ~started) ~> (pc = "run" /\ last.op = "poll_once" /\ last.res = "Idle")

\* run was started after emit_startup, wrote the records of two sends and
\* waits for the next one.
C38_Witness ==
    /\ pc = "run_recv"
    /\ started
    /\ queue = <<>>
    /\ nops = MaxRunOps
    /\ Len(SelectSeq(Frames(sink), IsData)) = 2

\* run was started on an Uninitialized exporter: it goes round on Idle
\* while two records wait in the queue.
C38_WitnessIdle ==
    /\ pc = "run"
    /\ ~started
    /\ last.op = "poll_once"
    /\ last.res = "Idle"
    /\ Len(queue) = 2
    /\ sink = <<>>

\* run returned the error of a record of its queue.
C38_WitnessError ==
    /\ pc = "done"
    /\ last.op = "run"
    /\ last.res = "InvalidMultiId"

\* An exporter that has been dropping records over its stream budget for a
\* long time: dropped_streams starts within MaxSaturateGap of the largest
\* value of the counter.
InitSaturate ==
    \E g \in 0..MaxSaturateGap :
        InitExporterOf(MAX_MULTI_IDS, MAX_STREAMS, U32_MAX - g, MaxSaturateOps)

NextSaturate ==
    \/ \E record \in DataRecords : WriteRecord(record)
    \/ Send(new_data(1, MAX_MULTI_IDS - 1, 0, <<1, 2, 3, 4>>).v)
    \/ EmitStartup(0)
    \/ PollOnce

SpecSaturate == InitSaturate /\ [][NextSaturate]_vars

(* ---------------- C39 -------------------------------------------------- *)
C39_Step ==
    /\ dropped_streams' >= dropped_streams
    /\ dropped_streams' <= U32_MAX
    /\ dropped_streams' - dropped_streams <= 1
    /\ (last'.op \in {"write_record", "poll_once"} /\ last'.rec.some
        /\ SlotOverflow(last'.rec.v)) =>
           /\ dropped_streams' = (IF dropped_streams = U32_MAX THEN U32_MAX
                                  ELSE dropped_streams + 1)
           /\ last'.res \in {"Ok", "Progressed"}
           /\ sink' = sink
           /\ subscribed' = subscribed

\* C39: dropped_streams saturates instead of wrapping: it never decreases,
\* once it has reached the maximum 32-bit value further slot-budget drops
\* leave it at that maximum, and the record is still dropped with a success
\* result.
C39_Saturates == [][C39_Step]_vars

\* Two records over the stream budget were dropped with success by an
\* exporter whose counter was at most one below the maximum: the second
\* drop left the counter at the maximum.
C39_Witness ==
    /\ dropped_streams = U32_MAX
    /\ slot_overflows >= 2
    /\ last.op \in {"write_record", "poll_once"}
    /\ last.rec.some
    /\ SlotOverflow(last.rec.v)
    /\ last.res \in {"Ok", "Progressed"}

====
